---- MODULE Spec2Model ----
(***************************************************************************)
(* A model of the batch orchestrator (src/src/core/batch.rs) and of the    *)
(* interactive session (src/src/tui/app.rs, src/src/tui/runner.rs) of the  *)
(* stash downloader.                                                       *)
(*                                                                         *)
(* Strings are sequences of characters.  In the batch part a URL-shaped    *)
(* prefix ("https://youtube.com/watch?v=a") is one character, "U" or "V";  *)
(* "x" is any other visible character, " " is white space and "#" is the   *)
(* comment marker.                                                         *)
(***************************************************************************)
EXTENDS Integers, Sequences, FiniteSets, TLC

VARIABLES
    \* ---- BatchDownloader (core/batch.rs) ----
    items,            \* Vec<BatchDownloadItem>
    history,          \* History: the URLs that have an entry
    stop_on_error,    \* BatchDownloader.stop_on_error
    concurrent_limit, \* BatchDownloader.concurrent_limit
    run,              \* position of download_all: "idle", "running", "collected"
    total_count,      \* download_all's total_count
    next_index,       \* next index the stream hands to buffer_unordered
    task,             \* download_item(index): position of each future
    results,          \* the Result<()> each future returned
    calls,            \* Downloader::download invocations per index, this run
    stats,            \* BatchDownloadStats built by download_all
    recorded,         \* HistoryEntry values added per index, this run
    ret,              \* what the last download_all returned
    \* ---- interactive session (tui/app.rs, tui/runner.rs) ----
    state,            \* App.state: the AppState
    should_quit,      \* App.should_quit
    hpc,              \* position of handle_event in the event loop
    hop,              \* the call handle_event chose from its snapshot
    downloads,        \* the perform_download tasks spawned so far
    updates,          \* spawned progress-update tasks waiting for the lock
    last,             \* the background step that took the lock last, and
                      \* the AppState variant it found
    \* ---- one call of load_from_file or add_urls on its own ----
    load_input,       \* the lines of the file, or the URL list
    load_op,          \* the method called, "none" before the call
    load_ret,         \* the Result it returned
    \* ---- two jobs and their yt-dlp children in one output directory
    \*      (infra/downloader.rs, core/batch.rs download_item) ----
    out_dir,          \* the files of Downloader.output_dir
    proc,             \* each job's child process and its place in the driver
    driver_result,    \* what Downloader::download returned to each job
    job_path,         \* items[index].output_path of each job
    hist_path,        \* the output_path of each job's HistoryEntry
    \* ---- Config, as BatchDownloader::new reads it ----
    concurrent_downloads, \* Config.concurrent_downloads, an Option<usize>
    \* ---- the two mutexes of BatchDownloader ----
    locks,            \* the task that holds each MutexGuard, 0 for none
    caller,           \* skip_duplicates / check_duplicates and the tail of
                      \* download_all: the method and its position
    pb,               \* position of each job's ProgressBar (download_with_resume)
    \* ---- one call of download_with_progress (infra/downloader.rs) ----
    stdout_lines,     \* the lines the child writes to stdout
    stdout_read,      \* how many of them stdout_handle has read
    stderr_lines,     \* the lines the child writes to stderr
    stderr_read,      \* how many of them stderr_handle has read
    callbacks,        \* the samples progress_callback was called with
    dwp               \* position of download_with_progress

bvars == <<items, history, stop_on_error, concurrent_limit, run, total_count,
           next_index, task, results, calls, recorded, stats, ret>>

tvars == <<state, should_quit, hpc, hop, downloads, updates, last>>

lvars == <<load_input, load_op, load_ret>>

dvars == <<out_dir, proc, driver_result, job_path, hist_path>>

cvars == <<concurrent_downloads>>

kvars == <<locks, caller, pb>>

pvars == <<stdout_lines, stdout_read, stderr_lines, stderr_read, callbacks, dwp>>

vars == <<bvars, tvars, lvars, dvars, cvars, kvars, pvars>>

----------------------------------------------------------------------------
\* Bounds of the model.

\* Most items the job table holds.
MaxItems == 2
\* Most lines of a batch file, and most URLs of an add_urls list.
MaxLines == 1
\* Largest configured concurrent_downloads value.
MaxConfigured == 2
\* Longest text of the URL input buffer.
MaxInput == 1
\* Most bytes of the URL input buffer when it is edited on its own.
MaxInputBytes == 4
\* Most update tasks of one download that wait for the lock together.
MaxPending == 2
\* Most downloads started in one session.
MaxDownloads == 2
\* Most progress lines one download prints.
MaxSamples == 1
\* Most video formats the metadata lists.
MaxVideoFormats == 1
\* Longest line of the file given to one load_from_file call.
MaxLineLen == 2
\* Most lines of that file, and most URLs of the list given to add_urls.
MaxLoadLines == 2
\* Modification times a file of the output directory can carry.
MaxTime == 2
\* Largest exit code of a yt-dlp child.
MaxExitCode == 1
\* Lines a child writes to its stderr.
MaxStderr == 1
\* Jobs in the table of the run whose admissions are followed.
PoolJobs == 3
\* Largest configured concurrent_downloads of that run.
MaxPoolConfigured == 11
\* Lines of a child's stdout when more than one line is followed.
MaxStdout == 2


-----------------------------------------------------------------------------
\* The process driver (infra/downloader.rs) and the two jobs that use it.

\* Two jobs of one run; both get config.output_dir (batch.rs 222).
Jobs == {1, 2}

\* A path is the name of the file: the job whose child wrote it, or
\* OldFile for a file the directory held before the run.
OldFile == 0
NoPath == -1

Times == 1 .. MaxTime
ExitCodes == 0 .. MaxExitCode
StderrLines == {"ERROR: Video unavailable"}

IdleProc == [pc |-> "idle", code |-> -1, stderr |-> <<>>, wrote |-> FALSE]
NoResult == [tag |-> "None", path |-> NoPath, text |-> <<>>]

Ok(path) == [tag |-> "Ok", path |-> path, text |-> <<>>]
YtdlpFailed(text) == [tag |-> "YtdlpFailed", path |-> NoPath, text |-> text]
Other(text) == [tag |-> "Other", path |-> NoPath, text |-> text]

\* find_newest_file with the comparison the other way round.
find_oldest_file(dir) ==
    LET files == {f \in dir : ~f.part}
    IN  {f.name : f \in {f \in files : \A g \in files : f.modified <= g.modified}}

\* find_newest_file: the paths it can return, one per order read_dir can
\* deliver the entries in (of equally new files the first one read stays).
find_newest_file(dir) ==
    LET files == {f \in dir : ~f.part}
    IN  {f.name : f \in {f \in files : \A g \in files : g.modified <= f.modified}}

\* download_with_resume after child.wait(), lines 247-271: what it returns
\* for an exit code and a directory.
download_results(code, dir) ==
    IF code # 0
    THEN {YtdlpFailed(<<"yt-dlp exited with code", ToString(code)>>)}
    ELSE IF find_newest_file(dir) = {}
         THEN {Other(<<"No downloaded file found in output directory">>)}
         ELSE {Ok(p) : p \in find_newest_file(dir)}
----------------------------------------------------------------------------
\* Strings.

Chars == {" ", "#", "U", "V", "x"}
UrlHeads == {"U", "V"}

\* The lines of a batch file, one character long, and the URLs they hold.
BatchLines == {<<c>> : c \in Chars}
Urls == {<<c>> : c \in UrlHeads}

SeqsUpTo(S, n) == UNION {[1..k -> S] : k \in 0..n}

RECURSIVE trim_start(_)
trim_start(s) ==
    IF s # <<>> /\ Head(s) = " " THEN trim_start(Tail(s)) ELSE s

RECURSIVE trim_end(_)
trim_end(s) ==
    IF s # <<>> /\ s[Len(s)] = " " THEN trim_end(SubSeq(s, 1, Len(s) - 1)) ELSE s

\* str::trim
trim(s) == trim_end(trim_start(s))

\* validate_youtube_url: every pattern is anchored at the start only, so a
\* string is valid exactly when it starts with a URL-shaped prefix.
validate_youtube_url(url) == url # <<>> /\ Head(url) \in UrlHeads

----------------------------------------------------------------------------
\* BatchDownloadItem and the operations on the job table.

Statuses == {"Pending", "Downloading", "Complete", "Failed", "Skipped"}

\* BatchDownloadItem::new
NewItem(url) ==
    [url |-> url, status |-> "Pending", title |-> "None",
     output_path |-> "None", progress |-> 0]

\* History::contains_url
contains_url(h, url) == url \in h

\* History::add_entry
add_entry(h, url) == h \cup {url}

\* BatchDownloader::new: the clamp of config.concurrent_downloads.
Max2(a, b) == IF a >= b THEN a ELSE b
Min2(a, b) == IF a <= b THEN a ELSE b
DEFAULT_CONCURRENT == 3
MIN_CONCURRENT == 1
MAX_CONCURRENT == 10
\* A limit taken from the configuration as it is.
new_concurrent_limit_unclamped(configured) ==
    IF configured = <<>> THEN DEFAULT_CONCURRENT ELSE configured[1]

new_concurrent_limit(configured) ==
    Min2(Max2(IF configured = <<>> THEN DEFAULT_CONCURRENT ELSE configured[1],
              MIN_CONCURRENT),
         MAX_CONCURRENT)

\* No task holds the job-table mutex or the history mutex.
NoLocks == [items |-> 0, history |-> 0]

\* The callers beside the download_item futures: 3 calls skip_duplicates or
\* check_duplicates, 4 runs the tail of download_all; neither has begun.
Callers == {3, 4}
NoCallers == [c \in Callers |-> [op |-> "none", pc |-> "idle"]]

\* Option<usize>: <<>> is None, <<n>> is Some(n).
ConfiguredValues == {<<>>} \cup {<<n>> : n \in 0..MaxConfigured}

\* The URLs load_from_file keeps: trimmed, non-blank, non-comment, valid lines.
RECURSIVE valid_lines(_)
valid_lines(content) ==
    IF content = <<>> THEN <<>>
    ELSE LET line == trim(Head(content))
             rest == valid_lines(Tail(content))
         IN  IF line = <<>> \/ Head(line) = "#" THEN rest
             ELSE IF validate_youtube_url(line) THEN <<line>> \o rest
             ELSE rest

RECURSIVE new_items(_)
new_items(urls) ==
    IF urls = <<>> THEN <<>> ELSE <<NewItem(Head(urls))>> \o new_items(Tail(urls))

\* BatchDownloader::load_from_file on a readable file: the result and the table.
load_from_file(its, content) ==
    LET urls == valid_lines(content)
    IN  IF urls = <<>>
        THEN [result |-> "Err(Config)", items |-> its]
        ELSE [result |-> "Ok", items |-> its \o new_items(urls)]

\* BatchDownloader::add_urls: pushes until the first invalid URL, which is
\* returned with `?`; the URLs pushed before it stay in the table.
RECURSIVE add_urls(_, _)
add_urls(its, urls) ==
    IF urls = <<>> THEN [result |-> "Ok", items |-> its]
    ELSE IF ~validate_youtube_url(Head(urls))
         THEN [result |-> "Err(InvalidUrl)", items |-> its]
         ELSE add_urls(Append(its, NewItem(Head(urls))), Tail(urls))

\* A skip_duplicates that stops at the first duplicate it marks.
skip_duplicates_first_only(its, h) ==
    LET dup == {i \in DOMAIN its :
                  contains_url(h, its[i].url) /\ its[i].status # "Skipped"}
    IN  [i \in DOMAIN its |->
            IF i \in dup /\ \A j \in dup : i <= j
            THEN [its[i] EXCEPT !.status = "Skipped"]
            ELSE its[i]]

\* BatchDownloader::skip_duplicates, one pass over the table.
skip_duplicates(its, h) ==
    [i \in DOMAIN its |->
        IF contains_url(h, its[i].url)
        THEN [its[i] EXCEPT !.status = "Skipped"]
        ELSE its[i]]

Count(its, st) == Cardinality({i \in DOMAIN its : its[i].status = st})

\* The futures buffer_unordered holds: admitted and not yet returned.
InFlight == {i \in DOMAIN task : task[i] \notin {"idle", "done"}}

\* A buffer as wide as the job table: buffer_unordered(total_count).
CanAdmit_by_total == Cardinality(InFlight) < total_count

\* A buffer that takes no new future once a job has failed.
CanAdmit_unless_failed ==
    Cardinality(InFlight) < concurrent_limit /\ Count(items, "Failed") = 0

\* A buffer that is refilled only when all the futures it took have returned.
CanAdmit_in_batches ==
    /\ Cardinality(InFlight) < concurrent_limit
    /\ InFlight = {} \/ (next_index - 1) % concurrent_limit # 0

\* buffer_unordered(self.concurrent_limit): room for one more future.
CanAdmit == Cardinality(InFlight) < concurrent_limit

----------------------------------------------------------------------------
\* The batch state machine.

NoStats == [total |-> 0, successful |-> 0, failed |-> 0, skipped |-> 0]

\* load_from_file(path): needs &mut self, so no run is in progress.
LoadFromFile ==
    /\ UNCHANGED <<tvars, lvars, dvars, cvars, kvars, pvars>>
    /\ run = "idle"
    /\ \E content \in SeqsUpTo(BatchLines, MaxLines) :
         LET r == load_from_file(items, content)
         IN  /\ Len(r.items) <= MaxItems
             /\ items' = r.items
    /\ UNCHANGED <<history, stop_on_error, concurrent_limit, run, total_count,
                   next_index, task, results, calls, recorded, stats, ret>>

\* add_urls(urls): needs &mut self, so no run is in progress.
AddUrls ==
    /\ UNCHANGED <<tvars, lvars, dvars, cvars, kvars, pvars>>
    /\ run = "idle"
    /\ \E urls \in SeqsUpTo(BatchLines, MaxLines) :
         LET r == add_urls(items, urls)
         IN  /\ Len(r.items) <= MaxItems
             /\ items' = r.items
    /\ UNCHANGED <<history, stop_on_error, concurrent_limit, run, total_count,
                   next_index, task, results, calls, recorded, stats, ret>>

\* skip_duplicates(&self): holds both locks for the whole pass; it can be
\* called before a run and, through the shared reference, during one.
SkipDuplicates ==
    /\ UNCHANGED <<tvars, lvars, dvars, cvars, kvars, pvars>>
    /\ items # <<>>
    /\ items' = skip_duplicates(items, history)
    /\ UNCHANGED <<history, stop_on_error, concurrent_limit, run, total_count,
                   next_index, task, results, calls, recorded, stats, ret>>

\* download_all, lines 147-169: total_count and the stream of indices.  One
\* download_all runs at a time.
StartRun ==
    /\ UNCHANGED <<tvars, lvars, dvars, cvars, kvars, pvars>>
    /\ run = "idle"
    /\ run' = "running"
    /\ total_count' = Len(items)
    /\ next_index' = 1
    /\ task' = [i \in 1..Len(items) |-> "idle"]
    /\ results' = [i \in 1..Len(items) |-> "None"]
    /\ calls' = [i \in 1..Len(items) |-> 0]
    /\ recorded' = [i \in 1..Len(items) |-> 0]
    /\ stats' = NoStats
    /\ ret' = "None"
    /\ UNCHANGED <<items, history, stop_on_error, concurrent_limit>>

\* buffer_unordered pulls the next index and starts its future.
Admit ==
    /\ UNCHANGED <<tvars, lvars, dvars, cvars, kvars, pvars>>
    /\ run = "running"
    /\ next_index <= total_count
    /\ CanAdmit
    /\ task' = [task EXCEPT ![next_index] = "check"]
    /\ next_index' = next_index + 1
    /\ UNCHANGED <<items, history, stop_on_error, concurrent_limit, run,
                   total_count, results, calls, recorded, stats, ret>>

\* download_item, lines 207-213: the Skipped check, under the lock.
ItemCheck(i) ==
    /\ UNCHANGED <<tvars, lvars, dvars, cvars, kvars, pvars>>
    /\ task[i] = "check"
    /\ IF items[i].status = "Skipped"
       THEN /\ task' = [task EXCEPT ![i] = "done"]
            /\ results' = [results EXCEPT ![i] = "Ok"]
       ELSE /\ task' = [task EXCEPT ![i] = "set"]
            /\ UNCHANGED results
    /\ UNCHANGED <<items, history, stop_on_error, concurrent_limit, run,
                   total_count, next_index, calls, recorded, stats, ret>>

\* download_item, lines 215-224: status = Downloading, under the lock again,
\* and then Downloader::download is invoked.
ItemSetDownloading(i) ==
    /\ UNCHANGED <<tvars, lvars, dvars, cvars, kvars, pvars>>
    /\ task[i] = "set"
    /\ items' = [items EXCEPT ![i].status = "Downloading"]
    /\ calls' = [calls EXCEPT ![i] = @ + 1]
    /\ task' = [task EXCEPT ![i] = "running"]
    /\ UNCHANGED <<history, stop_on_error, concurrent_limit, run, total_count,
                   next_index, results, recorded, stats, ret>>

\* The external process exits: Downloader::download returns Ok or Err.
ItemDriverReturns(i) ==
    /\ UNCHANGED <<tvars, lvars, dvars, cvars, kvars, pvars>>
    /\ task[i] = "running"
    /\ \E outcome \in {"ok", "err"} : task' = [task EXCEPT ![i] = outcome]
    /\ UNCHANGED <<items, history, stop_on_error, concurrent_limit, run,
                   total_count, next_index, results, calls, recorded, stats, ret>>

\* A completion that writes the status and the path and leaves the progress
\* and the title as they were.
ItemComplete_status_and_path_only(i) ==
    /\ UNCHANGED <<tvars, lvars, dvars, cvars, kvars, pvars>>
    /\ task[i] = "ok"
    /\ items' = [items EXCEPT ![i] =
                   [@ EXCEPT !.status = "Complete", !.output_path = "Some"]]
    /\ task' = [task EXCEPT ![i] = "record"]
    /\ UNCHANGED <<history, stop_on_error, concurrent_limit, run, total_count,
                   next_index, results, calls, recorded, stats, ret>>

\* download_item, lines 227-245: size and title lookups, then the item is
\* completed under the lock; the title falls back to the URL.
ItemComplete(i) ==
    /\ UNCHANGED <<tvars, lvars, dvars, cvars, kvars, pvars>>
    /\ task[i] = "ok"
    /\ \E title \in {"Fetched", "Url"} :
         items' = [items EXCEPT ![i] =
                     [@ EXCEPT !.status = "Complete", !.output_path = "Some",
                               !.progress = 100, !.title = title]]
    /\ task' = [task EXCEPT ![i] = "record"]
    /\ UNCHANGED <<history, stop_on_error, concurrent_limit, run, total_count,
                   next_index, results, calls, recorded, stats, ret>>

\* download_item, lines 247-259: the HistoryEntry, under the history lock.
ItemRecord(i) ==
    /\ UNCHANGED <<tvars, lvars, dvars, cvars, kvars, pvars>>
    /\ task[i] = "record"
    /\ history' = add_entry(history, items[i].url)
    /\ recorded' = [recorded EXCEPT ![i] = @ + 1]
    /\ task' = [task EXCEPT ![i] = "done"]
    /\ results' = [results EXCEPT ![i] = "Ok"]
    /\ UNCHANGED <<items, stop_on_error, concurrent_limit, run, total_count,
                   next_index, calls, stats, ret>>

\* download_item, lines 261-274: Failed under the lock; Err only with
\* stop_on_error.
item_result_on_failure(stop) == IF stop THEN "Err" ELSE "Ok"

ItemFail(i) ==
    /\ UNCHANGED <<tvars, lvars, dvars, cvars, kvars, pvars>>
    /\ task[i] = "err"
    /\ items' = [items EXCEPT ![i].status = "Failed"]
    /\ task' = [task EXCEPT ![i] = "done"]
    /\ results' = [results EXCEPT ![i] = item_result_on_failure(stop_on_error)]
    /\ UNCHANGED <<history, stop_on_error, concurrent_limit, run, total_count,
                   next_index, calls, recorded, stats, ret>>

\* download_all, lines 171-187: collect() has every result; the statistics.
collect_stats(res, its, total) ==
    [total      |-> total,
     successful |-> Cardinality({i \in DOMAIN res : res[i] = "Ok"}),
     failed     |-> Cardinality({i \in DOMAIN res : res[i] = "Err"}),
     skipped    |-> Count(its, "Skipped")]

\* A download_all that stops collecting at the first Err when stop_on_error
\* is set and leaves the futures still in flight where they are.
Collect_on_first_error ==
    /\ UNCHANGED <<tvars, lvars, dvars, cvars, kvars, pvars>>
    /\ run = "running"
    /\ \/ next_index > total_count /\ InFlight = {}
       \/ stop_on_error /\ \E i \in DOMAIN results : results[i] = "Err"
    /\ stats' = collect_stats(results, items, total_count)
    /\ run' = "collected"
    /\ UNCHANGED <<items, history, stop_on_error, concurrent_limit, total_count,
                   next_index, task, results, calls, recorded, ret>>

Collect ==
    /\ UNCHANGED <<tvars, lvars, dvars, cvars, kvars, pvars>>
    /\ run = "running"
    /\ next_index > total_count
    /\ InFlight = {}
    /\ stats' = collect_stats(results, items, total_count)
    /\ run' = "collected"
    /\ UNCHANGED <<items, history, stop_on_error, concurrent_limit, total_count,
                   next_index, task, results, calls, recorded, ret>>

\* download_all, lines 194-197: history.save()? and Ok(stats); the futures
\* and their results are dropped.
SaveAndReturn ==
    /\ UNCHANGED <<tvars, lvars, dvars, cvars, kvars, pvars>>
    /\ run = "collected"
    /\ \E saved \in BOOLEAN : ret' = IF saved THEN "Ok(stats)" ELSE "Err(Io)"
    /\ run' = "idle"
    /\ total_count' = 0
    /\ next_index' = 1
    /\ task' = <<>>
    /\ results' = <<>>
    /\ calls' = <<>>
    /\ recorded' = <<>>
    /\ UNCHANGED <<items, history, stop_on_error, concurrent_limit, stats>>

ItemStep ==
    \E i \in DOMAIN task :
        \/ ItemCheck(i)
        \/ ItemSetDownloading(i)
        \/ ItemDriverReturns(i)
        \/ ItemComplete(i)
        \/ ItemRecord(i)
        \/ ItemFail(i)

----------------------------------------------------------------------------
\* The interactive session: AppState and the methods of App (tui/app.rs).
\* A typed or pasted "U" stands for text that contains "youtube.com".

\* input.contains("youtube.com") || input.contains("youtu.be")
looks_like_youtube(input) == \E i \in DOMAIN input : input[i] \in UrlHeads

\* String::insert / String::insert_str at a byte position.
insert_str(str, pos, text) ==
    SubSeq(str, 1, pos) \o text \o SubSeq(str, pos + 1, Len(str))

\* String::remove at a byte position (0-based).
remove_at(str, idx) == SubSeq(str, 1, idx) \o SubSeq(str, idx + 2, Len(str))

\* The UrlInput state of App::new and go_to_url_input.
EmptyUrlInput ==
    [kind |-> "UrlInput", input |-> <<>>, cursor_pos |-> 0, is_valid |-> "None",
     validation_message |-> "Paste a YouTube URL or press Ctrl+V"]

go_to_url_input(s) == EmptyUrlInput

\* go_to_welcome: runner.rs calls it; the repository defines it in ui/app.rs.
go_to_welcome(s) == [kind |-> "Welcome"]

\* Option<String>: <<>> is None, <<v>> is Some(v).
go_to_error(s, error_type, message, suggestions) ==
    [kind |-> "Error", error_type |-> error_type, message |-> message,
     suggestions |-> suggestions,
     last_url |-> CASE s.kind = "UrlInput" -> <<s.input>>
                    [] s.kind = "FetchingInfo" -> <<s.url>>
                    [] s.kind = "Downloading" -> <<s.url>>
                    [] OTHER -> <<>>,
     retry_count |-> 0]

\* A go_to_help that captures a Downloading state with its progress zeroed.
go_to_help_zeroed_progress(s) ==
    [kind |-> "Help",
     previous_state |-> IF s.kind = "Downloading"
                        THEN [s EXCEPT !.progress = [percentage |-> 0, from |-> 0]]
                        ELSE s]

go_to_help(s) == [kind |-> "Help", previous_state |-> s]

go_to_settings(s, output_dir, quality, concurrent) ==
    [kind |-> "Settings",
     settings |-> [output_dir |-> output_dir, quality |-> quality,
                   concurrent_downloads |-> concurrent, audio_format |-> "mp3",
                   selected_index |-> 0],
     previous_state |-> s]

\* A back action that always lands on the empty URL input.
back_to_url_input(s) ==
    IF s.kind \in {"Help", "Settings"} THEN EmptyUrlInput ELSE s

back_from_overlay(s) ==
    IF s.kind \in {"Help", "Settings"} THEN s.previous_state ELSE s

LAST_SETTING == 4

select_next_setting(s) ==
    IF s.kind = "Settings" /\ s.settings.selected_index < LAST_SETTING
    THEN [s EXCEPT !.settings.selected_index = @ + 1] ELSE s

select_previous_setting(s) ==
    IF s.kind = "Settings" /\ s.settings.selected_index > 0
    THEN [s EXCEPT !.settings.selected_index = @ - 1] ELSE s

\* An update_input that stores the text and leaves the verdict as it was.
update_input_keeps_verdict(s, input, cursor_pos) ==
    IF s.kind # "UrlInput" THEN s
    ELSE [s EXCEPT !.input = input, !.cursor_pos = cursor_pos]

update_input(s, input, cursor_pos) ==
    IF s.kind # "UrlInput" THEN s
    ELSE [s EXCEPT
            !.input = input,
            !.cursor_pos = cursor_pos,
            !.is_valid = IF input = <<>> THEN "None"
                         ELSE IF looks_like_youtube(input) THEN "Some(true)"
                         ELSE "Some(false)",
            !.validation_message =
                         IF input = <<>> THEN "Paste a YouTube URL or press Ctrl+V"
                         ELSE IF looks_like_youtube(input) THEN "Valid YouTube URL"
                         ELSE "Invalid YouTube URL"]

start_fetching_info(s, url) == [kind |-> "FetchingInfo", url |-> url]

show_format_selection(s, url, video_info, formats) ==
    [kind |-> "FormatSelection", url |-> url, video_info |-> video_info,
     formats |-> formats, selected_index |-> 0]

\* A Down that compares with the length, not with the last index.
select_next_format_off_by_one(s) ==
    IF s.kind = "FormatSelection" /\ s.selected_index < Len(s.formats)
    THEN [s EXCEPT !.selected_index = @ + 1] ELSE s

\* selected_index is 0-based, as in the code.
select_next_format(s) ==
    IF s.kind = "FormatSelection" /\ s.selected_index < Len(s.formats) - 1
    THEN [s EXCEPT !.selected_index = @ + 1] ELSE s

select_previous_format(s) ==
    IF s.kind = "FormatSelection" /\ s.selected_index > 0
    THEN [s EXCEPT !.selected_index = @ - 1] ELSE s

\* DownloadProgress; `from` names the perform_download whose sample it is
\* (0: the zeroed progress of start_download).
ZeroProgress == [percentage |-> 0, from |-> 0]

\* start_download; `dl` names the perform_download the caller spawns next.
start_download(s, dl) ==
    IF s.kind = "FormatSelection"
    THEN [kind |-> "Downloading", url |-> s.url, video_info |-> s.video_info,
          format |-> s.formats[s.selected_index + 1], progress |-> ZeroProgress,
          dl |-> dl]
    ELSE s

\* An update_progress that also reaches the Downloading state an overlay
\* keeps as its previous_state.
update_progress_under_overlay(s, progress) ==
    IF s.kind = "Downloading" THEN [s EXCEPT !.progress = progress]
    ELSE IF s.kind \in {"Help", "Settings"} /\ s.previous_state.kind = "Downloading"
    THEN [s EXCEPT !.previous_state.progress = progress]
    ELSE s

\* update_progress, and the same test in perform_download's callback.
update_progress(s, progress) ==
    IF s.kind = "Downloading" THEN [s EXCEPT !.progress = progress] ELSE s

download_complete(s, info) == [kind |-> "Success", info |-> info]

----------------------------------------------------------------------------
\* Keys (tui/events.rs) and the dispatch of handle_event (tui/runner.rs).

CharKeys == {"h", "a", "n", "r", "s", "U"}
Keys == {"q", "Ctrl+c", "Enter", "Esc", "Up", "Down", "Backspace", "Ctrl+u"}
            \cup CharKeys
PasteTexts == {<<"U">>, <<"h">>, <<"h", "U">>}

\* A quit test that knows only the letter.
is_quit_key_letter_only(key) == key = "q"

is_quit_key(key) == key \in {"q", "Ctrl+c"}
is_back_key(key) == key = "Esc"
is_help_key(key) == key = "h"

NoCall == [call |-> "none"]
NoStep == [op |-> "none", found |-> "none"]

\* The match on the snapshot `current_state`: the method handle_event will
\* call once it has the lock again, with the arguments taken from the snapshot.
dispatch(cur, key) ==
    CASE cur.kind = "Welcome" ->
            IF key = "Enter" THEN [call |-> "go_to_url_input"]
            ELSE IF key = "s" THEN [call |-> "go_to_settings"]
            ELSE NoCall
      [] cur.kind = "UrlInput" ->
            IF key \in CharKeys
            THEN [call |-> "update_input",
                  input |-> insert_str(cur.input, cur.cursor_pos, <<key>>),
                  cursor_pos |-> cur.cursor_pos + 1]
            ELSE IF key = "Backspace"
            THEN IF cur.cursor_pos > 0
                 THEN [call |-> "update_input",
                       input |-> remove_at(cur.input, cur.cursor_pos - 1),
                       cursor_pos |-> cur.cursor_pos - 1]
                 ELSE NoCall
            ELSE IF key = "Ctrl+u"
            THEN [call |-> "update_input", input |-> <<>>, cursor_pos |-> 0]
            ELSE IF key = "Enter"
            THEN IF looks_like_youtube(cur.input)
                 THEN [call |-> "start_fetching_info", url |-> cur.input]
                 ELSE NoCall
            ELSE IF key = "Esc" THEN [call |-> "go_to_welcome"]
            ELSE NoCall
      [] cur.kind = "FetchingInfo" ->
            IF is_back_key(key) THEN [call |-> "go_to_url_input"] ELSE NoCall
      [] cur.kind = "FormatSelection" ->
            IF key = "Up" THEN [call |-> "select_previous_format"]
            ELSE IF key = "Down" THEN [call |-> "select_next_format"]
            ELSE IF key = "Enter" THEN [call |-> "start_download", quick_audio |-> FALSE]
            ELSE IF key = "a" THEN [call |-> "start_download", quick_audio |-> TRUE]
            ELSE IF key = "Esc" THEN [call |-> "go_to_url_input"]
            ELSE NoCall
      [] cur.kind = "Downloading" ->
            IF key = "Ctrl+c" THEN [call |-> "go_to_url_input"] ELSE NoCall
      [] cur.kind = "Success" ->
            IF key = "n" THEN [call |-> "go_to_url_input"] ELSE NoCall
      [] cur.kind = "Error" ->
            IF key \in {"n", "r"} THEN [call |-> "go_to_url_input"] ELSE NoCall
      [] cur.kind = "Help" ->
            IF is_back_key(key) THEN [call |-> "back_from_overlay"] ELSE NoCall
      [] cur.kind = "Settings" ->
            IF key = "Up" THEN [call |-> "select_previous_setting"]
            ELSE IF key = "Down" THEN [call |-> "select_next_setting"]
            ELSE IF key = "Esc" THEN [call |-> "back_from_overlay"]
            ELSE NoCall

\* The Paste arm of handle_event: only the UrlInput snapshot takes the text.
dispatch_paste(cur, text) ==
    IF cur.kind = "UrlInput"
    THEN [call |-> "update_input",
          input |-> insert_str(cur.input, cur.cursor_pos, text),
          cursor_pos |-> cur.cursor_pos + Len(text)]
    ELSE NoCall

\* The call of a key's arm, made on the state the lock now guards.
apply_call(s, c, next_dl) ==
    CASE c.call = "go_to_url_input" -> go_to_url_input(s)
      [] c.call = "go_to_welcome" -> go_to_welcome(s)
      [] c.call = "go_to_settings" -> go_to_settings(s, "./downloads", "best", 3)
      [] c.call = "update_input" -> update_input(s, c.input, c.cursor_pos)
      [] c.call = "start_fetching_info" -> start_fetching_info(s, c.url)
      [] c.call = "select_previous_format" -> select_previous_format(s)
      [] c.call = "select_next_format" -> select_next_format(s)
      [] c.call = "start_download" -> start_download(s, next_dl)
      [] c.call = "back_from_overlay" -> back_from_overlay(s)
      [] c.call = "select_previous_setting" -> select_previous_setting(s)
      [] c.call = "select_next_setting" -> select_next_setting(s)

\* The audio_only argument of the perform_download a FormatSelection arm
\* spawns: Enter reads the format of the state start_download left.
spawned_audio_only(s_after, c) ==
    IF c.quick_audio THEN TRUE
    ELSE (IF s_after.kind = "Downloading" THEN s_after.format ELSE "best") = "audio"

\* fetch_video_info: "best", at most 5 video formats, "audio".
MAX_VIDEO_CHOICES == 5
format_options(n_video) ==
    <<"best">> \o [i \in 1..Min2(n_video, MAX_VIDEO_CHOICES) |-> "video"] \o <<"audio">>

FetchSuggestions ==
    <<"Check your internet connection", "Verify the URL is correct",
      "Try updating yt-dlp">>
DownloadSuggestions ==
    <<"Check your internet connection", "Verify the video is still available",
      "Try a different quality or format">>

\* fetch_video_info(app, url), which runs with the lock held.
fetch_video_info(s, url, fetched) ==
    IF fetched.ok
    THEN IF s.kind = "FetchingInfo"
         THEN show_format_selection(s, url, "info", format_options(fetched.n_video))
         ELSE s
    ELSE go_to_error(s, "Fetch Error", "Failed to fetch video information",
                     FetchSuggestions)

\* A tail of perform_download that writes only into the Downloading state.
finish_download_if_downloading(s, dl, ok) ==
    IF s.kind # "Downloading" THEN s
    ELSE IF ok THEN download_complete(s, [file |-> "file", from |-> dl])
    ELSE go_to_error(s, "Download Error", "Failed to download video",
                     DownloadSuggestions)

\* The tail of perform_download, lines 495-554, under the lock.
finish_download(s, dl, ok) ==
    IF ok THEN download_complete(s, [file |-> "file", from |-> dl])
    ELSE go_to_error(s, "Download Error", "Failed to download video",
                     DownloadSuggestions)

----------------------------------------------------------------------------
\* The session state machine.

TuiInit ==
    /\ state = EmptyUrlInput
    /\ should_quit = FALSE
    /\ hpc = "idle"
    /\ hop = NoCall
    /\ downloads = <<>>
    /\ updates = {}
    /\ last = NoStep
    /\ load_input = <<>>
    /\ load_op = "none"
    /\ load_ret = "None"
    /\ out_dir = {}
    /\ proc = [j \in Jobs |-> IdleProc]
    /\ driver_result = [j \in Jobs |-> NoResult]
    /\ job_path = [j \in Jobs |-> NoPath]
    /\ hist_path = [j \in Jobs |-> NoPath]
    /\ locks = NoLocks
    /\ caller = NoCallers
    /\ pb = [j \in Jobs |-> 0]
    /\ stdout_lines = <<>>
    /\ stdout_read = 0
    /\ stderr_lines = <<>>
    /\ stderr_read = 0
    /\ callbacks = <<>>
    /\ dwp = "idle"
    /\ items = <<>>
    /\ history = {}
    /\ stop_on_error = FALSE
    /\ concurrent_downloads = <<>>
    /\ concurrent_limit = new_concurrent_limit(concurrent_downloads)
    /\ run = "idle"
    /\ total_count = 0
    /\ next_index = 1
    /\ task = <<>>
    /\ results = <<>>
    /\ calls = <<>>
    /\ recorded = <<>>
    /\ stats = NoStats
    /\ ret = "None"

\* The bound on the model's input buffer.
FitsInput(c) == c.call = "update_input" => Len(c.input) <= MaxInput

\* Global quit key: checked first, in every state.
KeyQuitOn(key) ==
    /\ UNCHANGED <<bvars, lvars, dvars, cvars, kvars, pvars>>
    /\ hpc = "idle" /\ ~should_quit
    /\ is_quit_key(key)
    /\ should_quit' = TRUE
    /\ UNCHANGED <<state, hpc, hop, downloads, updates, last>>

KeyQuit == \E key \in Keys : KeyQuitOn(key)

\* A help key that is held back in the URL input only.
KeyHelpOn_over_overlays(key) ==
    /\ UNCHANGED <<bvars, lvars, dvars, cvars, kvars, pvars>>
    /\ hpc = "idle" /\ ~should_quit
    /\ ~is_quit_key(key) /\ is_help_key(key)
    /\ FitsInput(dispatch(state, key))
    /\ IF state.kind # "UrlInput"
       THEN state' = go_to_help(state) /\ UNCHANGED hpc
       ELSE hpc' = "snapshot" /\ UNCHANGED state
    /\ UNCHANGED <<should_quit, hop, downloads, updates, last>>

\* Global help key: opens the overlay and returns, or falls through to the
\* state's arm when the state is Help, Settings or UrlInput.
KeyHelpOn(key) ==
    /\ UNCHANGED <<bvars, lvars, dvars, cvars, kvars, pvars>>
    /\ hpc = "idle" /\ ~should_quit
    /\ ~is_quit_key(key) /\ is_help_key(key)
    /\ FitsInput(dispatch(state, key))
    /\ IF state.kind \notin {"Help", "Settings", "UrlInput"}
       THEN state' = go_to_help(state) /\ UNCHANGED hpc
       ELSE hpc' = "snapshot" /\ UNCHANGED state
    /\ UNCHANGED <<should_quit, hop, downloads, updates, last>>

KeyHelp == \E key \in Keys : KeyHelpOn(key)

\* `current_state` is cloned under the lock and matched against the key.
KeySnapshotOn(key) ==
    /\ UNCHANGED <<bvars, lvars, dvars, cvars, kvars, pvars>>
    /\ ~should_quit
    /\ \/ hpc = "idle" /\ ~is_quit_key(key) /\ ~is_help_key(key)
       \/ hpc = "snapshot" /\ is_help_key(key)
    /\ LET c == dispatch(state, key)
       IN  /\ FitsInput(c)
           /\ c # NoCall
           /\ hop' = c
           /\ hpc' = "call"
    /\ UNCHANGED <<state, should_quit, downloads, updates, last>>

KeySnapshot == \E key \in Keys : KeySnapshotOn(key)

\* handle_event(Event::Key(key)) from its entry to its first release of the
\* lock.
Press(key) ==
    /\ hpc = "idle"
    /\ KeyQuitOn(key) \/ KeyHelpOn(key) \/ KeySnapshotOn(key)

\* A key whose arm makes no call: handle_event returns.
KeyIgnored ==
    /\ UNCHANGED <<bvars, lvars, dvars, cvars, kvars, pvars>>
    /\ hpc = "snapshot"
    /\ dispatch(state, "h") = NoCall
    /\ hpc' = "idle"
    /\ UNCHANGED <<state, should_quit, hop, downloads, updates, last>>

\* Event::Paste: the snapshot, then update_input under the lock again.
PasteSnapshot ==
    /\ UNCHANGED <<bvars, lvars, dvars, cvars, kvars, pvars>>
    /\ hpc = "idle" /\ ~should_quit
    /\ \E text \in PasteTexts :
         LET c == dispatch_paste(state, text)
         IN  /\ FitsInput(c)
             /\ c # NoCall
             /\ hop' = c
             /\ hpc' = "call"
    /\ UNCHANGED <<state, should_quit, downloads, updates, last>>

\* The arm's call under the lock.  start_fetching_info goes on to fetch; the
\* FormatSelection arms spawn perform_download whatever start_download did.
KeyCall ==
    /\ UNCHANGED <<bvars, lvars, dvars, cvars, kvars, pvars>>
    /\ hpc = "call"
    /\ hop.call = "start_download" => Len(downloads) < MaxDownloads
    /\ LET s_after == apply_call(state, hop, Len(downloads) + 1)
       IN  /\ state' = s_after
           /\ downloads' =
                IF hop.call = "start_download"
                THEN Append(downloads,
                            [audio_only |-> spawned_audio_only(s_after, hop),
                             running |-> TRUE, emitted |-> 0])
                ELSE downloads
    /\ hpc' = IF hop.call = "start_fetching_info" THEN "fetch" ELSE "idle"
    /\ hop' = IF hop.call = "start_fetching_info" THEN hop ELSE NoCall
    /\ UNCHANGED <<should_quit, updates, last>>

\* fetch_video_info(&mut *app.lock().await, url): the lock is taken again and
\* held until the metadata call has returned, so nothing runs in between.
Fetch ==
    /\ UNCHANGED <<bvars, lvars, dvars, cvars, kvars, pvars>>
    /\ hpc = "fetch"
    /\ \E fetched \in {[ok |-> FALSE, n_video |-> 0]}
                       \cup {[ok |-> TRUE, n_video |-> n] : n \in 0..MaxVideoFormats} :
         state' = fetch_video_info(state, hop.url, fetched)
    /\ hpc' = "idle"
    /\ hop' = NoCall
    /\ UNCHANGED <<should_quit, downloads, updates, last>>

\* download_with_progress parses a line into a sample and calls the callback,
\* which spawns a task that will take the lock.
DriverSample(d) ==
    /\ UNCHANGED <<bvars, lvars, dvars, cvars, kvars, pvars>>
    /\ downloads[d].running
    /\ downloads[d].emitted < MaxSamples
    /\ downloads' = [downloads EXCEPT ![d].emitted = @ + 1]
    /\ updates' = updates \cup
                    {[from |-> d, percentage |-> downloads[d].emitted + 1]}
    /\ UNCHANGED <<state, should_quit, hpc, hop, last>>

\* A spawned update task gets the lock, lines 480-490.
ApplyUpdate(u) ==
    /\ UNCHANGED <<bvars, lvars, dvars, cvars, kvars, pvars>>
    /\ u \in updates
    /\ state' = update_progress(state, [percentage |-> u.percentage, from |-> u.from])
    /\ updates' = updates \ {u}
    /\ last' = [op |-> "update", found |-> state.kind]
    /\ UNCHANGED <<should_quit, hpc, hop, downloads>>

\* download_with_progress returns and perform_download gets the lock; the
\* task then ends and its locals are dropped.
FinishDownload(d) ==
    /\ UNCHANGED <<bvars, lvars, dvars, cvars, kvars, pvars>>
    /\ downloads[d].running
    /\ \E ok \in BOOLEAN : state' = finish_download(state, d, ok)
    /\ downloads' = [downloads EXCEPT ![d] = [running |-> FALSE]]
    /\ last' = [op |-> "finish", found |-> state.kind]
    /\ UNCHANGED <<should_quit, hpc, hop, updates>>

Background ==
    \/ \E d \in DOMAIN downloads : DriverSample(d)
    \/ \E u \in updates : ApplyUpdate(u)
    \/ \E d \in DOMAIN downloads : FinishDownload(d)

TuiNext ==
    \/ KeyQuit
    \/ KeyHelp
    \/ KeySnapshot
    \/ KeyIgnored
    \/ PasteSnapshot
    \/ KeyCall
    \/ Fetch
    \/ Background


-----------------------------------------------------------------------------
\* Two download_item futures, each with a Downloader of its own over the
\* same output directory, from Downloader::download to the HistoryEntry.

\* The times a write into the directory can stamp: not older than what the
\* directory holds.
NewestTime(dir) ==
    IF dir = {} THEN 1
    ELSE CHOOSE t \in {f.modified : f \in dir} : \A f \in dir : f.modified <= t

WriteTimes(dir) == {NewestTime(dir), NewestTime(dir) + 1} \cap Times

\* TokioCommand::spawn, lines 192-198: the child runs, or the spawn fails.
Spawn(j) ==
    /\ proc[j].pc = "idle"
    /\ \/ /\ proc' = [proc EXCEPT ![j].pc = "child"]
          /\ UNCHANGED driver_result
       \/ /\ proc' = [proc EXCEPT ![j].pc = "returned"]
          /\ driver_result' = [driver_result EXCEPT
                                 ![j] = YtdlpFailed(<<"Failed to spawn yt-dlp">>)]
    /\ UNCHANGED <<out_dir, job_path, hist_path, bvars, tvars, lvars,
                   cvars, kvars, pvars>>

\* The child starts its .part file.
ChildPart(j) ==
    /\ proc[j].pc = "child"
    /\ ~proc[j].wrote
    /\ ~\E f \in out_dir : f.name = j
    /\ \E t \in WriteTimes(out_dir) :
         out_dir' = out_dir \cup {[name |-> j, part |-> TRUE, modified |-> t]}
    /\ UNCHANGED <<proc, driver_result, job_path, hist_path, bvars, tvars, lvars,
                   cvars, kvars, pvars>>

\* The child leaves its finished file under the -o template.
ChildFile(j) ==
    /\ proc[j].pc = "child"
    /\ ~proc[j].wrote
    /\ \E t \in WriteTimes(out_dir) :
         out_dir' = {f \in out_dir : f.name # j}
                        \cup {[name |-> j, part |-> FALSE, modified |-> t]}
    /\ proc' = [proc EXCEPT ![j].wrote = TRUE]
    /\ UNCHANGED <<driver_result, job_path, hist_path, bvars, tvars, lvars,
                   cvars, kvars, pvars>>

\* The child writes a line to its stderr; stderr_handle reads and traces it.
ChildStderr(j) ==
    /\ proc[j].pc = "child"
    /\ Len(proc[j].stderr) < MaxStderr
    /\ \E line \in StderrLines :
         proc' = [proc EXCEPT ![j].stderr = Append(@, line)]
    /\ UNCHANGED <<out_dir, driver_result, job_path, hist_path, bvars, tvars, lvars,
                   cvars, kvars, pvars>>

\* child.wait() returns the exit status.
ChildExit(j) ==
    /\ proc[j].pc = "child"
    /\ \E code \in ExitCodes :
         proc' = [proc EXCEPT ![j].pc = "exited", ![j].code = code]
    /\ UNCHANGED <<out_dir, driver_result, job_path, hist_path, bvars, tvars, lvars,
                   cvars, kvars, pvars>>

\* download_with_resume, lines 257-271: the status test and find_newest_file.
DownloadReturns(j) ==
    /\ proc[j].pc = "exited"
    /\ \E r \in download_results(proc[j].code, out_dir) :
         driver_result' = [driver_result EXCEPT ![j] = r]
    /\ proc' = [proc EXCEPT ![j].pc = "returned"]
    /\ UNCHANGED <<out_dir, job_path, hist_path, bvars, tvars, lvars,
                   cvars, kvars, pvars>>

\* download_item, lines 238-245: the Ok arm stores the path in the item.
StoreOutputPath(j) ==
    /\ proc[j].pc = "returned"
    /\ driver_result[j].tag = "Ok"
    /\ job_path' = [job_path EXCEPT ![j] = driver_result[j].path]
    /\ proc' = [proc EXCEPT ![j].pc = "stored"]
    /\ UNCHANGED <<out_dir, driver_result, hist_path, bvars, tvars, lvars,
                   cvars, kvars, pvars>>

\* download_item, lines 247-257: the HistoryEntry carries the same path.
AddHistoryEntry(j) ==
    /\ proc[j].pc = "stored"
    /\ hist_path' = [hist_path EXCEPT ![j] = driver_result[j].path]
    /\ proc' = [proc EXCEPT ![j].pc = "done"]
    /\ UNCHANGED <<out_dir, driver_result, job_path, bvars, tvars, lvars,
                   cvars, kvars, pvars>>

\* download_item, lines 261-274: the Err arm; no path is stored.
StoreFailure(j) ==
    /\ proc[j].pc = "returned"
    /\ driver_result[j].tag # "Ok"
    /\ proc' = [proc EXCEPT ![j].pc = "done"]
    /\ UNCHANGED <<out_dir, driver_result, job_path, hist_path, bvars, tvars, lvars,
                   cvars, kvars, pvars>>

-----------------------------------------------------------------------------
\* download_item at the grain of its MutexGuards: `task` is the position of
\* each future, `locks` the holder of the job-table and of the history mutex.

\* The lock().await each position waits in, and the position behind it.
WaitsFor ==
    [lock_check |-> "items", lock_set |-> "items", lock_complete |-> "items",
     lock_fail |-> "items", lock_history |-> "history"]
AfterLock ==
    [lock_check |-> "check", lock_set |-> "set", lock_complete |-> "complete",
     lock_fail |-> "fail", lock_history |-> "record"]

\* The mutex whose guard is alive at each position inside a block.
Holds ==
    [check |-> "items", set |-> "items", complete |-> "items",
     fail |-> "items", record |-> "history"]

\* A guard of the Downloading write that lives on into the driver call.
held_after_kept_over_download(j, pc) == IF pc = "set" THEN j ELSE 0

\* The holder once the block at `pc` has ended: the guard is dropped.
held_after(j, pc) == 0

\* lines 206, 216, 239, 256, 264: the mutex is free and the future takes it.
Lock(j) ==
    /\ task[j] \in DOMAIN WaitsFor
    /\ locks[WaitsFor[task[j]]] = 0
    /\ locks' = [locks EXCEPT ![WaitsFor[task[j]]] = j]
    /\ task' = [task EXCEPT ![j] = AfterLock[@]]
    /\ UNCHANGED <<items, history, stop_on_error, concurrent_limit, run,
                   total_count, next_index, results, calls, recorded, stats, ret>>
    /\ UNCHANGED <<tvars, lvars, dvars, cvars, pvars, caller, pb>>

\* The block under the guard, to its closing brace: lines 207-212 (the Skipped
\* test), 217 (Downloading), 240-244 (Complete), 265 (Failed), 257 (add_entry).
Section(j) ==
    /\ task[j] \in DOMAIN Holds
    /\ locks[Holds[task[j]]] = j
    /\ \E title \in IF task[j] = "complete" THEN {"Fetched", "Url"} ELSE {"None"} :
         items' =
           CASE task[j] = "set" -> [items EXCEPT ![j].status = "Downloading"]
             [] task[j] = "complete" ->
                   [items EXCEPT ![j] = [@ EXCEPT !.status = "Complete",
                                                  !.output_path = "Some",
                                                  !.progress = 100,
                                                  !.title = title]]
             [] task[j] = "fail" -> [items EXCEPT ![j].status = "Failed"]
             [] OTHER -> items
    /\ history' = IF task[j] = "record" THEN add_entry(history, items[j].url)
                  ELSE history
    /\ task' = [task EXCEPT ![j] =
                  CASE @ = "check" -> IF items[j].status = "Skipped" THEN "done"
                                      ELSE "lock_set"
                    [] @ = "set" -> "download"
                    [] @ = "complete" -> "lock_history"
                    [] OTHER -> "done"]
    /\ locks' = [locks EXCEPT ![Holds[task[j]]] = held_after(j, task[j])]
    /\ UNCHANGED <<stop_on_error, concurrent_limit, run, total_count, next_index,
                   results, calls, recorded, stats, ret>>
    /\ UNCHANGED <<tvars, lvars, dvars, cvars, pvars, caller, pb>>

\* The awaits on process I/O: Downloader::download (224), then the size
\* lookup and fetch_video_info (230-236).
Await(j) ==
    /\ task[j] \in {"download", "lookup"}
    /\ \E ok \in BOOLEAN :
         task' = [task EXCEPT ![j] =
                    IF @ = "lookup" THEN "lock_complete"
                    ELSE IF ok THEN "lookup" ELSE "lock_fail"]
    /\ UNCHANGED <<items, history, stop_on_error, concurrent_limit, run,
                   total_count, next_index, results, calls, recorded, stats, ret>>
    /\ UNCHANGED <<tvars, lvars, dvars, cvars, kvars, pvars>>

\* Downloader::download is download_with_resume, which takes no callback:
\* its stdout reader parses the percentage of a "[download] N%" line and
\* moves the job's ProgressBar there (downloader.rs 207-226), as a whole
\* number of percent.
DriverProgress(j) ==
    /\ task[j] = "download"
    /\ \E percent \in {45, 100} :
         pb' = [pb EXCEPT ![j] = percent]
    /\ UNCHANGED <<locks, caller>>
    /\ UNCHANGED <<bvars, tvars, lvars, dvars, cvars, pvars>>

\* skip_duplicates, check_duplicates and the tail of download_all each take
\* the job-table mutex and then, with that guard alive, the history mutex
\* (batch.rs 121-122, 135-136, 183 and 194); both guards live to the end.
\* A check_duplicates and skip_duplicates that take the history mutex first.
nth_lock_history_first(op, n) ==
    IF op = "download_all" THEN <<"items", "history">>[n]
    ELSE <<"history", "items">>[n]

\* The n-th mutex the method takes.
nth_lock(op, n) == <<"items", "history">>[n]

\* The method is called: skip_duplicates or check_duplicates at any time,
\* the tail of download_all when collect() has every result.
CallerStart(c) ==
    /\ caller[c].pc = "idle"
    /\ \E op \in IF c = 3 THEN {"skip_duplicates", "check_duplicates"}
                 ELSE {"download_all"} :
         /\ op = "download_all" => \A j \in Jobs : task[j] = "done"
         /\ caller' = [caller EXCEPT ![c] = [op |-> op, pc |-> "lock_1"]]
    /\ UNCHANGED <<locks, pb>>
    /\ UNCHANGED <<bvars, tvars, lvars, dvars, cvars, pvars>>

\* One lock().await of the caller returns: the mutex was free.
CallerLock(c) ==
    /\ caller[c].pc \in {"lock_1", "lock_2"}
    /\ LET n == IF caller[c].pc = "lock_1" THEN 1 ELSE 2
           m == nth_lock(caller[c].op, n)
       IN  /\ locks[m] = 0
           /\ locks' = [locks EXCEPT ![m] = c]
           /\ caller' = [caller EXCEPT ![c].pc = IF n = 1 THEN "lock_2" ELSE "pass"]
    /\ UNCHANGED pb
    /\ UNCHANGED <<bvars, tvars, lvars, dvars, cvars, pvars>>

\* The body under both guards, to the end of the method, where both are
\* dropped: the pass of skip_duplicates over the table, the reading pass of
\* check_duplicates, or the Skipped count and history.save of download_all.
CallerPass(c) ==
    /\ caller[c].pc = "pass"
    /\ items' = IF caller[c].op = "skip_duplicates"
                THEN skip_duplicates(items, history) ELSE items
    /\ locks' = NoLocks
    /\ caller' = [caller EXCEPT ![c] =
                    [op |-> "none",
                     pc |-> IF caller[c].op = "download_all" THEN "done" ELSE "idle"]]
    /\ UNCHANGED pb
    /\ UNCHANGED <<history, stop_on_error, concurrent_limit, run, total_count,
                   next_index, task, results, calls, recorded, stats, ret>>
    /\ UNCHANGED <<tvars, lvars, dvars, cvars, pvars>>

-----------------------------------------------------------------------------
\* download_with_progress: the stdout parser, the two line readers and the
\* return.  A line is the sequence of its whitespace-separated tokens; a
\* number with decimals is held in hundredths ("45.2" is 4520), and so is
\* the f64 speed of a sample.

SECONDS_PER_MINUTE == 60
SECONDS_PER_HOUR == 3600
BYTES_PER_KB == 1024

\* A token: a word ("[download]", "of", "at", "ETA", ...), or a "pct"
\* ("45.2%"), a "qty" ("~150.00MiB"), a "rate" ("2.50MiB/s") or a "clock"
\* ("00:30", parts <<0, 30>>).
Tok(k, n, unit, parts) == [k |-> k, n |-> n, unit |-> unit, parts |-> parts]
NoTok == Tok("none", 0, "", <<>>)

\* Regex::captures for a pattern `word\s+(token)`: the token behind the
\* leftmost place where the pattern matches, NoTok if it matches nowhere.
token_after(line, word, kind) ==
    LET hits == {i \in 1..(Len(line) - 1) : line[i].k = word /\ line[i + 1].k = kind}
    IN  IF hits = {} THEN NoTok
        ELSE line[(CHOOSE i \in hits : \A j \in hits : i <= j) + 1]

\* floor(a * b / d) without the product a * b.
mul_div(a, b, d) == (a \div d) * b + ((a % d) * b) \div d

\* Multipliers of the decimal units, the BYTES_PER_SI_ constants.
unit_multiplier_si(unit) ==
    CASE unit = "KiB" -> 1000
      [] unit = "MiB" -> 1000 * 1000
      [] unit = "GiB" -> 1000 * 1000 * 1000
      [] OTHER -> 1

\* lines 420-425 and 433-438: the match on the unit.
unit_multiplier(unit) ==
    CASE unit = "KiB" -> BYTES_PER_KB
      [] unit = "MiB" -> BYTES_PER_KB * BYTES_PER_KB
      [] unit = "GiB" -> BYTES_PER_KB * BYTES_PER_KB * BYTES_PER_KB
      [] OTHER -> 1

\* lines 445-456: split(':') and the parse of each part (-1: a part that is
\* no number); <<>> is None.
eta_seconds(parts) ==
    IF \E i \in DOMAIN parts : parts[i] < 0 THEN <<>>
    ELSE IF Len(parts) = 2
    THEN <<parts[1] * SECONDS_PER_MINUTE + parts[2]>>
    ELSE IF Len(parts) = 3
    THEN <<parts[1] * SECONDS_PER_HOUR + parts[2] * SECONDS_PER_MINUTE + parts[3]>>
    ELSE <<>>

\* lines 409-457: the DownloadProgressInfo built from the captures.
parse_fields(pct, size, speed, eta) ==
    LET total == IF size = NoTok THEN 0
                 ELSE mul_div(unit_multiplier(size.unit), size.n, 100)
    IN  [percentage |-> pct.n,
         total_bytes |-> total,
         downloaded_bytes |-> mul_div(total, pct.n, 10000),
         speed |-> IF speed = NoTok THEN 0 ELSE speed.n * unit_multiplier(speed.unit),
         eta |-> IF eta = NoTok THEN <<>> ELSE eta_seconds(eta.parts)]

\* A parser that looks for the speed only in a line that gave a size.
parse_progress_speed_after_size(line) ==
    LET pct == token_after(line, "[download]", "pct")
        size == token_after(line, "of", "qty")
    IN  [yields |-> pct # NoTok,
         sample |-> parse_fields(pct, size,
                                 IF size = NoTok THEN NoTok
                                 ELSE token_after(line, "at", "rate"),
                                 token_after(line, "ETA", "clock"))]

\* lines 407-458: a sample exactly when progress_re matches.
parse_progress(line) ==
    LET pct == token_after(line, "[download]", "pct")
    IN  [yields |-> pct # NoTok,
         sample |-> parse_fields(pct,
                                 token_after(line, "of", "qty"),
                                 token_after(line, "at", "rate"),
                                 token_after(line, "ETA", "clock"))]

\* "[download]  45.2% of ~150.00MiB at 2.50MiB/s ETA 00:30"
ExampleLine ==
    <<Tok("[download]", 0, "", <<>>), Tok("pct", 4520, "", <<>>),
      Tok("of", 0, "", <<>>), Tok("qty", 15000, "MiB", <<>>),
      Tok("at", 0, "", <<>>), Tok("rate", 250, "MiB", <<>>),
      Tok("ETA", 0, "", <<>>), Tok("clock", 0, "", <<0, 30>>)>>

\* Lines of yt-dlp: a progress line with each of its fields present in some
\* form or absent, a banner, and lines with fields but no "[download] N%".
StdoutLines ==
    LET word(w) == Tok(w, 0, "", <<>>)
        sizes == {<<>>} \cup
                 {<<word("of"), Tok("qty", q[1], q[2], <<>>)>> :
                     q \in {<<15000, "MiB">>, <<102, "KiB">>, <<100, "GiB">>,
                            <<50000, "B">>}}
        speeds == {<<>>} \cup
                  {<<word("at"), Tok("rate", r[1], r[2], <<>>)>> :
                      r \in {<<250, "MiB">>, <<1250, "KiB">>}}
        etas == {<<>>, <<word("ETA"), word("Unknown")>>} \cup
                {<<word("ETA"), Tok("clock", 0, "", c)>> :
                    c \in {<<0, 30>>, <<1, 0, 30>>, <<30>>, <<-1, 30>>}}
        fields == {sz \o sp \o e : sz \in sizes, sp \in speeds, e \in etas}
    IN  {<<word("[download]"), Tok("pct", p, "", <<>>)>> \o f :
            p \in {4520, 10000}, f \in fields}
        \cup {<<word("WARNING")>>, <<Tok("pct", 4520, "", <<>>)>>,
              Tail(Tail(ExampleLine))}

\* stdout_handle, lines 404-460: one line is read, parsed, and the callback
\* is called when it gave a sample.
ReadStdoutLine ==
    /\ dwp \in {"running", "joining"}
    /\ stdout_read < Len(stdout_lines)
    /\ stdout_read' = stdout_read + 1
    /\ LET r == parse_progress(stdout_lines[stdout_read + 1])
       IN  callbacks' = IF r.yields THEN Append(callbacks, r.sample) ELSE callbacks
    /\ UNCHANGED <<stdout_lines, stderr_lines, stderr_read, dwp>>
    /\ UNCHANGED <<bvars, tvars, lvars, dvars, cvars, kvars>>

\* stderr_handle, lines 466-475: one line is read and traced.
ReadStderrLine ==
    /\ dwp \in {"running", "joining"}
    /\ stderr_read < Len(stderr_lines)
    /\ stderr_read' = stderr_read + 1
    /\ UNCHANGED <<stdout_lines, stdout_read, stderr_lines, callbacks, dwp>>
    /\ UNCHANGED <<bvars, tvars, lvars, dvars, cvars, kvars>>

\* child.wait(), lines 477-480: the child has exited; what it wrote is in
\* the pipes.
ChildWait ==
    /\ dwp = "running"
    /\ dwp' = "joining"
    /\ UNCHANGED <<stdout_lines, stdout_read, stderr_lines, stderr_read, callbacks>>
    /\ UNCHANGED <<bvars, tvars, lvars, dvars, cvars, kvars>>

\* A return that does not join the two readers.
ReturnResult_without_join ==
    /\ dwp = "joining"
    /\ dwp' = "returned"
    /\ UNCHANGED <<stdout_lines, stdout_read, stderr_lines, stderr_read, callbacks>>
    /\ UNCHANGED <<bvars, tvars, lvars, dvars, cvars, kvars>>

\* lines 482-499: stdout_handle.await and stderr_handle.await return when
\* the readers have met the end of their pipes; then the result.
ReturnResult ==
    /\ dwp = "joining"
    /\ stdout_read = Len(stdout_lines)
    /\ stderr_read = Len(stderr_lines)
    /\ dwp' = "returned"
    /\ UNCHANGED <<stdout_lines, stdout_read, stderr_lines, stderr_read, callbacks>>
    /\ UNCHANGED <<bvars, tvars, lvars, dvars, cvars, kvars>>
----------------------------------------------------------------------------
\* The specifications: each part runs with the other at rest.

\* A BatchDownloader as main.rs builds it, before load_from_file.
BatchInit ==
    /\ items = <<>>
    /\ history \in SUBSET Urls
    /\ stop_on_error \in BOOLEAN
    /\ concurrent_limit \in {new_concurrent_limit(c) : c \in ConfiguredValues}
    /\ concurrent_downloads = <<concurrent_limit>>
    /\ run = "idle"
    /\ total_count = 0
    /\ next_index = 1
    /\ task = <<>>
    /\ results = <<>>
    /\ calls = <<>>
    /\ stats = NoStats
    /\ recorded = <<>>
    /\ ret = "None"
    /\ state = EmptyUrlInput
    /\ should_quit = FALSE
    /\ hpc = "idle"
    /\ hop = NoCall
    /\ downloads = <<>>
    /\ updates = {}
    /\ last = NoStep
    /\ load_input = <<>>
    /\ load_op = "none"
    /\ load_ret = "None"
    /\ out_dir = {}
    /\ proc = [j \in Jobs |-> IdleProc]
    /\ driver_result = [j \in Jobs |-> NoResult]
    /\ job_path = [j \in Jobs |-> NoPath]
    /\ hist_path = [j \in Jobs |-> NoPath]
    /\ locks = NoLocks
    /\ caller = NoCallers
    /\ pb = [j \in Jobs |-> 0]
    /\ stdout_lines = <<>>
    /\ stdout_read = 0
    /\ stderr_lines = <<>>
    /\ stderr_read = 0
    /\ callbacks = <<>>
    /\ dwp = "idle"

BatchNext ==
    \/ LoadFromFile
    \/ AddUrls
    \/ SkipDuplicates
    \/ StartRun
    \/ Admit
    \/ ItemStep
    \/ Collect
    \/ SaveAndReturn

\* One call of load_from_file or add_urls on a new BatchDownloader, for
\* every file and every list within the bounds.
LoadChars == {" ", "#", "U", "x"}
LoadLines == SeqsUpTo(LoadChars, MaxLineLen)

LoadInit ==
    /\ load_input \in SeqsUpTo(LoadLines, MaxLoadLines)
    /\ load_op = "none"
    /\ load_ret = "None"
    /\ out_dir = {}
    /\ proc = [j \in Jobs |-> IdleProc]
    /\ driver_result = [j \in Jobs |-> NoResult]
    /\ job_path = [j \in Jobs |-> NoPath]
    /\ hist_path = [j \in Jobs |-> NoPath]
    /\ locks = NoLocks
    /\ caller = NoCallers
    /\ pb = [j \in Jobs |-> 0]
    /\ stdout_lines = <<>>
    /\ stdout_read = 0
    /\ stderr_lines = <<>>
    /\ stderr_read = 0
    /\ callbacks = <<>>
    /\ dwp = "idle"
    /\ items = <<>>
    /\ history = {}
    /\ stop_on_error = FALSE
    /\ concurrent_downloads = <<>>
    /\ concurrent_limit = new_concurrent_limit(concurrent_downloads)
    /\ run = "idle"
    /\ total_count = 0
    /\ next_index = 1
    /\ task = <<>>
    /\ results = <<>>
    /\ calls = <<>>
    /\ recorded = <<>>
    /\ stats = NoStats
    /\ ret = "None"
    /\ state = EmptyUrlInput
    /\ should_quit = FALSE
    /\ hpc = "idle"
    /\ hop = NoCall
    /\ downloads = <<>>
    /\ updates = {}
    /\ last = NoStep

\* downloader.load_from_file(path) with the file's lines in load_input.
CallLoadFromFile ==
    /\ load_op = "none"
    /\ LET r == load_from_file(items, load_input)
       IN  items' = r.items /\ load_ret' = r.result
    /\ load_op' = "load_from_file"
    /\ UNCHANGED <<history, stop_on_error, concurrent_limit, run, total_count,
                   next_index, task, results, calls, recorded, stats, ret>>
    /\ UNCHANGED <<tvars, dvars, cvars, kvars, pvars, load_input>>

\* downloader.add_urls(urls) with the list in load_input.
CallAddUrls ==
    /\ load_op = "none"
    /\ LET r == add_urls(items, load_input)
       IN  items' = r.items /\ load_ret' = r.result
    /\ load_op' = "add_urls"
    /\ UNCHANGED <<history, stop_on_error, concurrent_limit, run, total_count,
                   next_index, task, results, calls, recorded, stats, ret>>
    /\ UNCHANGED <<tvars, dvars, cvars, kvars, pvars, load_input>>

LoadNext ==
    \/ CallLoadFromFile
    \/ CallAddUrls

\* The batch orchestrator.

\* The output directory before the run: empty, or holding an older file.
OldFiles == {{}, {[name |-> OldFile, part |-> FALSE, modified |-> 1]}}

DriverInit ==
    /\ out_dir \in OldFiles
    /\ proc = [j \in Jobs |-> IdleProc]
    /\ driver_result = [j \in Jobs |-> NoResult]
    /\ job_path = [j \in Jobs |-> NoPath]
    /\ hist_path = [j \in Jobs |-> NoPath]
    /\ locks = NoLocks
    /\ caller = NoCallers
    /\ pb = [j \in Jobs |-> 0]
    /\ stdout_lines = <<>>
    /\ stdout_read = 0
    /\ stderr_lines = <<>>
    /\ stderr_read = 0
    /\ callbacks = <<>>
    /\ dwp = "idle"
    /\ load_input = <<>>
    /\ load_op = "none"
    /\ load_ret = "None"
    /\ items = <<>>
    /\ history = {}
    /\ stop_on_error = FALSE
    /\ concurrent_downloads = <<>>
    /\ concurrent_limit = new_concurrent_limit(concurrent_downloads)
    /\ run = "idle"
    /\ total_count = 0
    /\ next_index = 1
    /\ task = <<>>
    /\ results = <<>>
    /\ calls = <<>>
    /\ recorded = <<>>
    /\ stats = NoStats
    /\ ret = "None"
    /\ state = EmptyUrlInput
    /\ should_quit = FALSE
    /\ hpc = "idle"
    /\ hop = NoCall
    /\ downloads = <<>>
    /\ updates = {}
    /\ last = NoStep

DriverNext ==
    \E j \in Jobs :
       \/ Spawn(j)
       \/ ChildPart(j)
       \/ ChildFile(j)
       \/ ChildStderr(j)
       \/ ChildExit(j)
       \/ DownloadReturns(j)
       \/ StoreOutputPath(j)
       \/ AddHistoryEntry(j)
       \/ StoreFailure(j)


\* One download_all over a table of PoolJobs Pending jobs, up to its
\* statistics, for every configured concurrent_downloads.
PoolInit ==
    /\ items = [i \in 1..PoolJobs |-> NewItem(<<"U">>)]
    /\ history = {}
    /\ stop_on_error \in BOOLEAN
    /\ concurrent_downloads \in {<<>>} \cup {<<n>> : n \in 0..MaxPoolConfigured}
    /\ concurrent_limit = new_concurrent_limit(concurrent_downloads)
    /\ run = "idle"
    /\ total_count = 0
    /\ next_index = 1
    /\ task = <<>>
    /\ results = <<>>
    /\ calls = <<>>
    /\ stats = NoStats
    /\ recorded = <<>>
    /\ ret = "None"
    /\ state = EmptyUrlInput
    /\ should_quit = FALSE
    /\ hpc = "idle"
    /\ hop = NoCall
    /\ downloads = <<>>
    /\ updates = {}
    /\ last = NoStep
    /\ load_input = <<>>
    /\ load_op = "none"
    /\ load_ret = "None"
    /\ out_dir = {}
    /\ proc = [j \in Jobs |-> IdleProc]
    /\ driver_result = [j \in Jobs |-> NoResult]
    /\ job_path = [j \in Jobs |-> NoPath]
    /\ hist_path = [j \in Jobs |-> NoPath]
    /\ locks = NoLocks
    /\ caller = NoCallers
    /\ pb = [j \in Jobs |-> 0]
    /\ stdout_lines = <<>>
    /\ stdout_read = 0
    /\ stderr_lines = <<>>
    /\ stderr_read = 0
    /\ callbacks = <<>>
    /\ dwp = "idle"

PoolNext ==
    \/ StartRun
    \/ Admit
    \/ ItemStep
    \/ Collect


\* Two download_item futures just created by download_all, over a table of
\* two jobs that are Pending or already Skipped.
LockInit ==
    /\ items \in {[j \in Jobs |-> [NewItem(<<"U">>) EXCEPT !.status = st[j]]] :
                      st \in [Jobs -> {"Pending", "Skipped"}]}
    /\ task = [j \in Jobs |-> "lock_check"]
    /\ locks = NoLocks
    /\ caller = NoCallers
    /\ pb = [j \in Jobs |-> 0]
    /\ history \in SUBSET Urls
    /\ stop_on_error = FALSE
    /\ concurrent_downloads = <<>>
    /\ concurrent_limit = new_concurrent_limit(concurrent_downloads)
    /\ run = "running"
    /\ total_count = 2
    /\ next_index = 3
    /\ results = [j \in Jobs |-> "None"]
    /\ calls = [j \in Jobs |-> 0]
    /\ stats = NoStats
    /\ recorded = [j \in Jobs |-> 0]
    /\ ret = "None"
    /\ state = EmptyUrlInput
    /\ should_quit = FALSE
    /\ hpc = "idle"
    /\ hop = NoCall
    /\ downloads = <<>>
    /\ updates = {}
    /\ last = NoStep
    /\ load_input = <<>>
    /\ load_op = "none"
    /\ load_ret = "None"
    /\ out_dir = {}
    /\ proc = [j \in Jobs |-> IdleProc]
    /\ driver_result = [j \in Jobs |-> NoResult]
    /\ job_path = [j \in Jobs |-> NoPath]
    /\ hist_path = [j \in Jobs |-> NoPath]
    /\ stdout_lines = <<>>
    /\ stdout_read = 0
    /\ stderr_lines = <<>>
    /\ stderr_read = 0
    /\ callbacks = <<>>
    /\ dwp = "idle"

LockNext ==
    \E j \in Jobs :
       \/ Lock(j)
       \/ Section(j)
       \/ Await(j)
       \/ DriverProgress(j)

\* The futures together with the other callers of the two mutexes.
OrderNext ==
    \/ \E j \in Jobs : Lock(j)
    \/ \E j \in Jobs : Section(j)
    \/ \E j \in Jobs : Await(j)
    \/ \E c \in Callers : CallerStart(c)
    \/ \E c \in Callers : CallerLock(c)
    \/ \E c \in Callers : CallerPass(c)


\* One download_with_progress whose child has been spawned: the child will
\* write one line of StdoutLines, or up to MaxStdout lines that are the
\* example, a bare percentage or a banner; stderr gets up to MaxStderr lines,
\* one of them a line that would parse.
ProgressInit ==
    /\ stdout_lines \in
          {<<l>> : l \in StdoutLines}
          \cup SeqsUpTo({ExampleLine, SubSeq(ExampleLine, 1, 2),
                         <<Tok("WARNING", 0, "", <<>>)>>}, MaxStdout)
    /\ stdout_read = 0
    /\ stderr_lines \in SeqsUpTo({ExampleLine, <<Tok("ERROR", 0, "", <<>>)>>}, MaxStderr)
    /\ stderr_read = 0
    /\ callbacks = <<>>
    /\ dwp = "running"
    /\ locks = NoLocks
    /\ caller = NoCallers
    /\ pb = [j \in Jobs |-> 0]
    /\ items = <<>>
    /\ history = {}
    /\ stop_on_error = FALSE
    /\ concurrent_downloads = <<>>
    /\ concurrent_limit = new_concurrent_limit(concurrent_downloads)
    /\ run = "idle"
    /\ total_count = 0
    /\ next_index = 1
    /\ task = <<>>
    /\ results = <<>>
    /\ calls = <<>>
    /\ stats = NoStats
    /\ recorded = <<>>
    /\ ret = "None"
    /\ state = EmptyUrlInput
    /\ should_quit = FALSE
    /\ hpc = "idle"
    /\ hop = NoCall
    /\ downloads = <<>>
    /\ updates = {}
    /\ last = NoStep
    /\ load_input = <<>>
    /\ load_op = "none"
    /\ load_ret = "None"
    /\ out_dir = {}
    /\ proc = [j \in Jobs |-> IdleProc]
    /\ driver_result = [j \in Jobs |-> NoResult]
    /\ job_path = [j \in Jobs |-> NoPath]
    /\ hist_path = [j \in Jobs |-> NoPath]

ProgressNext ==
    \/ ReadStdoutLine
    \/ ReadStderrLine
    \/ ChildWait
    \/ ReturnResult

Spec == BatchInit /\ [][BatchNext]_vars

\* The interactive session.
SpecTui == TuiInit /\ [][TuiNext]_vars

\* One load.
SpecLoad == LoadInit /\ [][LoadNext]_vars
SpecDriver == DriverInit /\ [][DriverNext]_vars
SpecPool == PoolInit /\ [][PoolNext]_vars
SpecLock == LockInit /\ [][LockNext]_vars
SpecOrder == LockInit /\ [][OrderNext]_vars
SpecProgress == ProgressInit /\ [][ProgressNext]_vars

----------------------------------------------------------------------------
\* The URL input buffer on its own (tui/runner.rs handle_event, the Paste arm
\* and the UrlInput arm): a String of UTF-8 bytes and a byte position.  "C3"
\* "A9" are the two bytes of one character; the other bytes are characters.

ContinuationBytes == {"A9"}

\* The characters a key can carry and the texts a paste can carry, as bytes.
InputChars == {<<"U">>, <<"x">>, <<"h">>, <<"C3", "A9">>}
InputPastes == InputChars \cup {<<"x", "C3", "A9">>, <<"h", "U">>}

\* str::is_char_boundary
is_char_boundary(str, idx) ==
    \/ idx = 0
    \/ idx = Len(str)
    \/ idx < Len(str) /\ str[idx + 1] \notin ContinuationBytes

\* String::remove: takes out the whole character that starts at idx.
remove_char(str, idx) ==
    LET width == IF idx + 2 <= Len(str) /\ str[idx + 2] \in ContinuationBytes
                 THEN 2 ELSE 1
    IN  SubSeq(str, 1, idx) \o SubSeq(str, idx + width + 1, Len(str))

InputInit ==
    /\ state = EmptyUrlInput
    /\ should_quit = FALSE
    /\ hpc = "idle"
    /\ hop = NoCall
    /\ downloads = <<>>
    /\ updates = {}
    /\ last = NoStep
    /\ load_input = <<>>
    /\ load_op = "none"
    /\ load_ret = "None"
    /\ out_dir = {}
    /\ proc = [j \in Jobs |-> IdleProc]
    /\ driver_result = [j \in Jobs |-> NoResult]
    /\ job_path = [j \in Jobs |-> NoPath]
    /\ hist_path = [j \in Jobs |-> NoPath]
    /\ locks = NoLocks
    /\ caller = NoCallers
    /\ pb = [j \in Jobs |-> 0]
    /\ stdout_lines = <<>>
    /\ stdout_read = 0
    /\ stderr_lines = <<>>
    /\ stderr_read = 0
    /\ callbacks = <<>>
    /\ dwp = "idle"
    /\ items = <<>>
    /\ history = {}
    /\ stop_on_error = FALSE
    /\ concurrent_downloads = <<>>
    /\ concurrent_limit = new_concurrent_limit(concurrent_downloads)
    /\ run = "idle"
    /\ total_count = 0
    /\ next_index = 1
    /\ task = <<>>
    /\ results = <<>>
    /\ calls = <<>>
    /\ recorded = <<>>
    /\ stats = NoStats
    /\ ret = "None"

\* KeyCode::Char(c) without modifiers, lines 211-216: String::insert panics
\* when cursor_pos is not a character boundary; the cursor moves on by one.
TypeChar ==
    /\ UNCHANGED <<bvars, lvars, dvars, cvars, kvars, pvars>>
    /\ hpc = "idle" /\ state.kind = "UrlInput"
    /\ \E c \in InputChars :
         /\ Len(state.input) + Len(c) <= MaxInputBytes
         /\ IF is_char_boundary(state.input, state.cursor_pos)
            THEN /\ state' = update_input(state,
                                 insert_str(state.input, state.cursor_pos, c),
                                 state.cursor_pos + 1)
                 /\ UNCHANGED hpc
            ELSE hpc' = "panicked" /\ UNCHANGED state
    /\ UNCHANGED <<should_quit, hop, downloads, updates, last>>

\* A Backspace that takes the character out and leaves the cursor.
Backspace_keeps_cursor ==
    /\ UNCHANGED <<bvars, lvars, dvars, cvars, kvars, pvars>>
    /\ hpc = "idle" /\ state.kind = "UrlInput"
    /\ state.cursor_pos > 0
    /\ IF is_char_boundary(state.input, state.cursor_pos - 1)
       THEN /\ state' = update_input(state,
                            remove_char(state.input, state.cursor_pos - 1),
                            state.cursor_pos)
            /\ UNCHANGED hpc
       ELSE hpc' = "panicked" /\ UNCHANGED state
    /\ UNCHANGED <<should_quit, hop, downloads, updates, last>>

\* KeyCode::Backspace, lines 217-224: nothing at position 0; String::remove
\* panics when cursor_pos - 1 is not a character boundary.
Backspace ==
    /\ UNCHANGED <<bvars, lvars, dvars, cvars, kvars, pvars>>
    /\ hpc = "idle" /\ state.kind = "UrlInput"
    /\ state.cursor_pos > 0
    /\ IF is_char_boundary(state.input, state.cursor_pos - 1)
       THEN /\ state' = update_input(state,
                            remove_char(state.input, state.cursor_pos - 1),
                            state.cursor_pos - 1)
            /\ UNCHANGED hpc
       ELSE hpc' = "panicked" /\ UNCHANGED state
    /\ UNCHANGED <<should_quit, hop, downloads, updates, last>>

\* Ctrl+U, lines 225-228.
ClearInput ==
    /\ UNCHANGED <<bvars, lvars, dvars, cvars, kvars, pvars>>
    /\ hpc = "idle" /\ state.kind = "UrlInput"
    /\ state' = update_input(state, <<>>, 0)
    /\ UNCHANGED <<should_quit, hpc, hop, downloads, updates, last>>

\* Event::Paste, lines 151-167: String::insert_str panics when cursor_pos is
\* not a character boundary; the cursor moves on by text.len() bytes.
PasteText ==
    /\ UNCHANGED <<bvars, lvars, dvars, cvars, kvars, pvars>>
    /\ hpc = "idle" /\ state.kind = "UrlInput"
    /\ \E text \in InputPastes :
         /\ Len(state.input) + Len(text) <= MaxInputBytes
         /\ IF is_char_boundary(state.input, state.cursor_pos)
            THEN /\ state' = update_input(state,
                                 insert_str(state.input, state.cursor_pos, text),
                                 state.cursor_pos + Len(text))
                 /\ UNCHANGED hpc
            ELSE hpc' = "panicked" /\ UNCHANGED state
    /\ UNCHANGED <<should_quit, hop, downloads, updates, last>>

InputNext ==
    \/ TypeChar
    \/ Backspace
    \/ ClearInput
    \/ PasteText

SpecInput == InputInit /\ [][InputNext]_vars

\* A session whose first download is running: download_with_progress has
\* parsed some lines, the callback has spawned an update task for each, and
\* none of the tasks has taken the lock yet.
SamplesInit ==
    /\ state = [kind |-> "Downloading", url |-> <<"U">>, video_info |-> "info",
                format |-> "best", progress |-> ZeroProgress, dl |-> 1]
    /\ should_quit = FALSE
    /\ hpc = "idle"
    /\ hop = NoCall
    /\ downloads \in {<<[audio_only |-> FALSE, running |-> TRUE, emitted |-> n]>> :
                        n \in 1..MaxPending}
    /\ updates = {[from |-> 1, percentage |-> p] : p \in 1..downloads[1].emitted}
    /\ last = NoStep
    /\ load_input = <<>>
    /\ load_op = "none"
    /\ load_ret = "None"
    /\ out_dir = {}
    /\ proc = [j \in Jobs |-> IdleProc]
    /\ driver_result = [j \in Jobs |-> NoResult]
    /\ job_path = [j \in Jobs |-> NoPath]
    /\ hist_path = [j \in Jobs |-> NoPath]
    /\ locks = NoLocks
    /\ caller = NoCallers
    /\ pb = [j \in Jobs |-> 0]
    /\ stdout_lines = <<>>
    /\ stdout_read = 0
    /\ stderr_lines = <<>>
    /\ stderr_read = 0
    /\ callbacks = <<>>
    /\ dwp = "idle"
    /\ items = <<>>
    /\ history = {}
    /\ stop_on_error = FALSE
    /\ concurrent_downloads = <<>>
    /\ concurrent_limit = new_concurrent_limit(concurrent_downloads)
    /\ run = "idle"
    /\ total_count = 0
    /\ next_index = 1
    /\ task = <<>>
    /\ results = <<>>
    /\ calls = <<>>
    /\ recorded = <<>>
    /\ stats = NoStats
    /\ ret = "None"

SpecSamples == SamplesInit /\ [][TuiNext]_vars

----------------------------------------------------------------------------
\* Properties of the batch orchestrator, stated for Spec.

TerminalStatuses == {"Complete", "Failed", "Skipped"}

\* C1: at every instant of a download_all run, and whatever the limit in
\* 1..10 and the number of jobs, the number of jobs whose status is
\* Downloading is at most concurrent_limit.
C1_DownloadingWithinLimit ==
    /\ concurrent_limit \in MIN_CONCURRENT..MAX_CONCURRENT
    /\ Count(items, "Downloading") <= concurrent_limit

\* C1 happens: the limit is reached while a job still waits for admission.
C1_LimitReached ==
    /\ run = "running"
    /\ Count(items, "Downloading") = concurrent_limit
    /\ next_index <= total_count

\* C2: while download_all runs, a job that is Skipped stays Skipped and
\* Downloader::download is not invoked for it, whatever the interleaving of
\* the job tasks and of skip_duplicates.
C2_SkippedNeverDownloaded ==
    [][run = "running" =>
         \A i \in DOMAIN task :
            items[i].status = "Skipped" =>
                /\ items'[i].status = "Skipped"
                /\ calls'[i] = calls[i]]_vars

\* C3: the statistics a run returns add up: total is successful plus failed
\* plus skipped.
C3_StatsAddUp ==
    ret = "Ok(stats)" =>
        stats.total = stats.successful + stats.failed + stats.skipped

\* C4: a status only moves forward: a job that is Complete, Failed or Skipped
\* keeps that very status, and a job that is Downloading is never Pending
\* again, through every load, skip_duplicates and download_all.
C4_StatusMovesForward ==
    [][\A i \in DOMAIN items :
          /\ items[i].status \in TerminalStatuses =>
                items'[i].status = items[i].status
          /\ items[i].status = "Downloading" =>
                items'[i].status # "Pending"]_vars

\* C8: skip_duplicates applied twice in a row gives the job table that one
\* application gives, for every job table and history.
C8_SkipDuplicatesIdempotent ==
    skip_duplicates(skip_duplicates(items, history), history)
        = skip_duplicates(items, history)

\* C8 happens: a table on which skip_duplicates has two jobs to mark.
C8_TwoDuplicatesToMark ==
    Cardinality({i \in DOMAIN items :
                    contains_url(history, items[i].url)
                    /\ items[i].status # "Skipped"}) >= 2

\* C10: with stop_on_error set, a run in which a job's download failed
\* returns that job's error, not the statistics.
C10_FailureIsTheRunsError ==
    [][(/\ run = "collected"
        /\ stop_on_error
        /\ \E i \in DOMAIN results : results[i] = "Err")
          => ret' = "Err(job)"]_vars

\* C11: with stop_on_error set, once a job of the run has failed, no new work
\* is admitted: a Pending job whose future has not been started is not
\* started, so it is never moved to Downloading or handed to the driver.
C11_NoAdmissionAfterFailure ==
    [][(/\ run = "running"
        /\ stop_on_error
        /\ \E j \in DOMAIN results : results[j] = "Err")
          => \A i \in DOMAIN task :
                (items[i].status = "Pending" /\ task[i] = "idle")
                    => task'[i] = "idle"]_vars

\* The steps download_item(i) still has to take, at most, from each position.
StepsLeft(pos) ==
    CASE pos = "idle" -> 6
      [] pos = "check" -> 5
      [] pos = "set" -> 4
      [] pos = "running" -> 3
      [] pos \in {"ok", "err"} -> 2
      [] pos = "record" -> 1
      [] pos = "done" -> 0

RECURSIVE SumSteps(_)
SumSteps(t) == IF t = <<>> THEN 0 ELSE StepsLeft(Head(t)) + SumSteps(Tail(t))

\* The steps a download_all in progress still has to take, at most, before
\* it returns.
RunSteps ==
    CASE run = "running" -> 2 + SumSteps(task)
      [] run = "collected" -> 1
      [] OTHER -> 0

----------------------------------------------------------------------------
\* Properties of one load, stated for SpecLoad.

\* The input of the call holds no valid URL: no line of the file survives the
\* filter, or the list given to add_urls is empty.
ZeroValidUrls ==
    IF load_op = "load_from_file" THEN valid_lines(load_input) = <<>>
    ELSE load_input = <<>>

\* C9: a load whose input yields zero valid URLs fails with a Config error,
\* for load_from_file and for add_urls alike.
C9_NoValidUrlIsConfigError ==
    (load_op # "none" /\ ZeroValidUrls) => load_ret = "Err(Config)"

----------------------------------------------------------------------------
\* Properties of the interactive session, stated for SpecTui.

\* C5: a progress update that is delivered while the state is not Downloading
\* leaves the AppState, and the quit flag, as they were.
C5_UpdateOutsideDownloadingIgnored ==
    [][\A u \in updates :
          (updates' = updates \ {u} /\ state.kind # "Downloading")
              => (state' = state /\ should_quit' = should_quit)]_vars

\* C5 happens: the last background step was an update that found the session
\* back at the URL input.
C5_UpdateDeliveredAtUrlInput ==
    last = [op |-> "update", found |-> "UrlInput"]

\* C6: the progress shown by a Downloading state is the zeroed progress of
\* start_download or a sample of that very download, never one of an earlier
\* download.
C6_ProgressOfThisDownload ==
    state.kind = "Downloading" => state.progress.from \in {0, state.dl}

C13_InterruptReturnsToInput ==
    [][(Press("Ctrl+c") /\ state.kind = "Downloading")
          => /\ should_quit' = FALSE
             /\ \/ state' = EmptyUrlInput
                \/ hop' = [call |-> "go_to_url_input"]]_vars

Overlays == {"Help", "Settings"}

\* C15: from every state s that is not an overlay, opening Help or Settings
\* and then going back gives s again, field for field; and the back action of
\* handle_event, applied to an overlay, puts back exactly the captured state.
C15_BackRestoresCaptured ==
    /\ [](state.kind \notin Overlays =>
            /\ back_from_overlay(go_to_help(state)) = state
            /\ back_from_overlay(go_to_settings(state, "./downloads", "best", 3))
                  = state)
    /\ [][(/\ hpc = "call" /\ hpc' = "idle"
           /\ hop.call = "back_from_overlay"
           /\ state.kind \in Overlays)
             => state' = state.previous_state]_vars

\* C15 happens: Help was opened over a format list whose selection had been
\* moved, and the back action is about to be applied to it.
C15_BackFromHelpOverFormats ==
    /\ hpc = "call"
    /\ hop.call = "back_from_overlay"
    /\ state.kind = "Help"
    /\ state.previous_state.kind = "FormatSelection"
    /\ state.previous_state.selected_index > 0

\* C16: the state an overlay has captured is never an overlay, and the help
\* key pressed in Help or Settings leaves the state as it is, in its global
\* test and in the overlay's own arm.
C16_OverlaysNeverStack ==
    /\ [](state.kind \in Overlays => state.previous_state.kind \notin Overlays)
    /\ [][(Press("h") /\ state.kind \in Overlays) => state' = state]_vars
    /\ [][(hpc = "snapshot" /\ hpc' # "snapshot" /\ state.kind \in Overlays)
             => state' = state]_vars

\* C16 happens: the help key was pressed while Settings was open.
C16_HelpKeyInSettings ==
    /\ hpc = "snapshot"
    /\ state.kind = "Settings"

\* C17: in FormatSelection the index is always one of the list, so
\* start_download finds its format; Down at the last index and Up at index 0
\* leave the state as it is, and elsewhere they move the index by one.
C17_IndexWithinFormats ==
    /\ [](state.kind = "FormatSelection" =>
            LET n == Len(state.formats)
                i == state.selected_index
            IN  /\ 0 <= i /\ i < n
                /\ select_next_format(state).selected_index
                      = IF i = n - 1 THEN i ELSE i + 1
                /\ select_previous_format(state).selected_index
                      = IF i = 0 THEN i ELSE i - 1)
    /\ [][(/\ hpc = "call" /\ hpc' = "idle"
           /\ state.kind = "FormatSelection"
           /\ \/ /\ hop.call = "select_next_format"
                 /\ state.selected_index = Len(state.formats) - 1
              \/ /\ hop.call = "select_previous_format"
                 /\ state.selected_index = 0)
             => state' = state]_vars

\* C17 happens: Down is about to be applied at the last index of a list.
C17_DownAtLastIndex ==
    /\ hpc = "call"
    /\ hop.call = "select_next_format"
    /\ state.kind = "FormatSelection"
    /\ state.selected_index = Len(state.formats) - 1

\* An Error state that tells the user something: a message and suggestions.
IsTellingError(s) ==
    /\ s.kind = "Error"
    /\ s.message # ""
    /\ Len(s.suggestions) > 0
    /\ \A i \in DOMAIN s.suggestions : s.suggestions[i] # ""

FetchFailed == [ok |-> FALSE, n_video |-> 0]

\* C18: a failed metadata fetch and a failed download, whatever state they
\* find, leave an Error state with a message and with suggestions; the step
\* that ends a fetch never leaves FetchingInfo behind, the step that ends a
\* download never leaves Downloading (or an overlay) behind; and a failure
\* starts nothing again: no download is spawned and no fetch is begun.
C18_FailuresReachError ==
    /\ [](hpc = "fetch" => IsTellingError(fetch_video_info(state, hop.url, FetchFailed)))
    /\ [](\A d \in DOMAIN downloads :
             downloads[d].running => IsTellingError(finish_download(state, d, FALSE)))
    /\ [][(hpc = "fetch" /\ hpc' # "fetch")
             => /\ state'.kind \in {"FormatSelection", "Error"}
                /\ state'.kind = "Error" => IsTellingError(state')
                /\ hpc' = "idle" /\ downloads' = downloads]_vars
    /\ [][\A d \in DOMAIN downloads :
             (downloads[d].running /\ ~downloads'[d].running)
                => /\ state'.kind \in {"Success", "Error"}
                   /\ state'.kind = "Error" => IsTellingError(state')
                   /\ hpc' = hpc
                   /\ Len(downloads') = Len(downloads)]_vars

\* C18 happens: a download failed while the Help overlay was open, and the
\* state is the Error it left.
C18_DownloadFailedUnderHelp ==
    /\ last = [op |-> "finish", found |-> "Help"]
    /\ state.kind = "Error"
    /\ state.error_type = "Download Error"

-----------------------------------------------------------------------------
\* Properties of the process driver and of two jobs in one output
\* directory, stated for SpecDriver.

Returned(j) == proc[j].pc \in {"returned", "stored", "done"} /\ proc[j].code # -1

\* C19: once the child of a download has exited, the driver's result is Ok
\* exactly when the exit code was 0, and for any other exit code it is a
\* failure whose text is what the child wrote to stderr.
C19_SuccessIffExitZero ==
    \A j \in Jobs :
       Returned(j) =>
          /\ driver_result[j].tag = "Ok" <=> proc[j].code = 0
          /\ proc[j].code # 0 =>
                /\ driver_result[j].tag # "Ok"
                /\ driver_result[j].text = proc[j].stderr

\* C20: the path a successful download returns is a newest non-partial file
\* of the shared directory, whichever job's child wrote it, and that path is
\* what the job stores in its item and in its HistoryEntry.
C20_NewestFileIsTheResult ==
    /\ [][\A j \in Jobs :
            (proc[j].pc = "exited" /\ proc'[j].pc = "returned"
                /\ driver_result'[j].tag = "Ok")
               => \E f \in out_dir :
                     /\ f.name = driver_result'[j].path
                     /\ ~f.part
                     /\ \A g \in out_dir : ~g.part => g.modified <= f.modified]_vars
    /\ [](\A j \in Jobs :
            /\ proc[j].pc \in {"stored", "done"} /\ driver_result[j].tag = "Ok"
                  => job_path[j] = driver_result[j].path
            /\ proc[j].pc = "done" /\ driver_result[j].tag = "Ok"
                  => hist_path[j] = driver_result[j].path)

\* C20 happens: both children ran at once and each wrote its file; job 1
\* reports, in its item and in its HistoryEntry, the file job 2's child wrote.
C20_OtherJobsArtifact ==
    /\ proc[1].pc = "done" /\ proc[1].wrote /\ proc[1].code = 0
    /\ proc[2].pc = "child" /\ proc[2].wrote
    /\ job_path[1] = 2
    /\ hist_path[1] = 2
    /\ \E f \in out_dir : f.name = 1 /\ ~f.part

-----------------------------------------------------------------------------
\* More properties of the batch orchestrator, stated for Spec.

\* C24: a job whose download_item has returned is Complete exactly when its
\* download succeeded, and then this run added exactly one HistoryEntry for
\* it; a job that is Failed or Skipped has added none.
C24_OneEntryPerSuccess ==
    \A i \in DOMAIN task :
       task[i] = "done" =>
          /\ recorded[i] <= 1
          /\ items[i].status = "Complete" <=> recorded[i] = 1
          /\ items[i].status \in {"Failed", "Skipped"} => recorded[i] = 0

-----------------------------------------------------------------------------
\* More properties of one load, stated for SpecLoad.

\* The valid URLs of the input, in input order: the lines of the file that
\* survive trimming and the blank and comment filter, or the valid members
\* of the list given to add_urls.
ValidUrlsOfInput ==
    IF load_op = "load_from_file" THEN valid_lines(load_input)
    ELSE SelectSeq(load_input, validate_youtube_url)

\* C25: a load whose input holds at least one valid URL succeeds and appends
\* exactly the valid URLs, in input order, each as a Pending job, for
\* load_from_file and for add_urls alike.
C25_InvalidUrlsAreDropped ==
    (load_op # "none" /\ ValidUrlsOfInput # <<>>) =>
        /\ load_ret = "Ok"
        /\ items = new_items(ValidUrlsOfInput)

-----------------------------------------------------------------------------
\* More properties of the interactive session, stated for SpecTui.

\* C26: in UrlInput is_valid is None exactly when the buffer is empty and
\* Some(true) exactly when the buffer passes the URL test; Enter chooses
\* start_fetching_info with the buffer as the URL exactly when is_valid is
\* Some(true) and chooses no call otherwise; the call leaves FetchingInfo
\* holding that URL.
C26_EnterFetchesWhenValid ==
    /\ [](state.kind = "UrlInput" =>
            /\ state.is_valid = "None" <=> state.input = <<>>
            /\ state.is_valid = "Some(true)" <=> looks_like_youtube(state.input)
            /\ dispatch(state, "Enter") =
                  IF state.is_valid = "Some(true)"
                  THEN [call |-> "start_fetching_info", url |-> state.input]
                  ELSE NoCall)
    /\ [][(hpc = "call" /\ hop.call = "start_fetching_info" /\ hpc' # "call")
             => /\ state.kind = "UrlInput" /\ state.input = hop.url
                /\ state' = [kind |-> "FetchingInfo", url |-> hop.url]]_vars
    /\ [][(Press("Enter") /\ state.kind = "UrlInput")
             => state.is_valid = "Some(true)" /\ state' = state]_vars

\* C26 happens: Enter on a valid buffer has put the state into FetchingInfo.
C26_FetchingTheBuffer ==
    /\ hpc = "fetch"
    /\ state = [kind |-> "FetchingInfo", url |-> <<"U">>]

\* C27: Esc in UrlInput makes no call and leaves the state as it is; Esc in
\* FetchingInfo or FormatSelection chooses go_to_url_input.
C27_EscAtTheRoot ==
    [][Press("Esc") =>
         CASE state.kind = "UrlInput" -> state' = state /\ hpc' = "idle"
           [] state.kind \in {"FetchingInfo", "FormatSelection"}
                 -> hop' = [call |-> "go_to_url_input"]
           [] OTHER -> TRUE]_vars

-----------------------------------------------------------------------------
\* Properties of the admissions of one run, stated for SpecPool.

\* C21: while download_all runs and a job is still undispatched, either
\* concurrent_limit jobs are in flight or the next admission is enabled,
\* whatever the in-flight jobs are doing; an admission takes the next
\* undispatched job and leaves every other job where it is; and a run is not
\* collected while a job is undispatched.
C21_NextJobAdmittedAtOnce ==
    /\ []((run = "running" /\ next_index <= total_count)
             => \/ Cardinality(InFlight) = concurrent_limit
                \/ ENABLED Admit)
    /\ [][next_index' # next_index /\ run = "running"
             => /\ next_index' = next_index + 1
                /\ task[next_index] = "idle" /\ task'[next_index] # "idle"
                /\ \A i \in DOMAIN task \ {next_index} : task'[i] = task[i]]_vars
    /\ [](run = "collected" => next_index > total_count)

\* C21 happens: with a limit of 2 the first job has returned, the second is
\* still in the driver, and the third has been admitted beside it.
C21_ThirdJobBesideTheSecond ==
    /\ run = "running" /\ concurrent_limit = 2
    /\ task[1] = "done" /\ task[2] = "running" /\ task[3] \notin {"idle", "done"}

\* C30: the limit download_all runs under is the configured
\* concurrent_downloads brought into 1..10, and 3 when none is configured;
\* never more jobs than that are in flight.
C30_LimitIsClamped ==
    LET value == IF concurrent_downloads = <<>> THEN 3 ELSE concurrent_downloads[1]
        limit == IF value < 1 THEN 1 ELSE IF value > 10 THEN 10 ELSE value
    IN  /\ concurrent_limit = limit
        /\ Cardinality(InFlight) <= limit

\* C30 happens: a run with concurrent_downloads = 0 has its one job in flight
\* and the next one waiting.
C30_ZeroConfigured ==
    /\ concurrent_downloads = <<0>>
    /\ run = "running" /\ Cardinality(InFlight) = 1 /\ next_index <= total_count

-----------------------------------------------------------------------------
\* Properties of the MutexGuards of download_item, stated for SpecLock.

\* C23: a future that awaits the driver, the size lookup or the title fetch
\* holds neither mutex; the job-table mutex is held only inside one of the
\* four blocks; and the job table changes only in a step of the future that
\* holds the mutex, and only in that future's own job.
C23_NoLockAcrossProcessIo ==
    /\ [](\A j \in Jobs :
            /\ task[j] \in {"download", "lookup"}
                  => locks.items # j /\ locks.history # j
            /\ locks.items = j => task[j] \in {"check", "set", "complete", "fail"})
    /\ [][items' # items
            => \E j \in Jobs :
                  /\ locks.items = j
                  /\ task'[j] # task[j]
                  /\ \A k \in Jobs \ {j} : items'[k] = items[k]]_vars

\* C23 happens: job 1 awaits its download while job 2 is inside a block of
\* the job-table mutex.
C23_SectionBesideADownload ==
    /\ task[1] = "download"
    /\ locks.items = 2 /\ task[2] = "complete"

-----------------------------------------------------------------------------
\* Properties of download_with_progress, stated for SpecProgress.

HasField(line, word, kind) ==
    \E i \in 1..(Len(line) - 1) : line[i].k = word /\ line[i + 1].k = kind

\* C28: a stdout line gives a sample only if it holds a percentage token;
\* in a sample the size, the speed and the ETA are each non-default exactly
\* when the line holds that field in a form the parser reads, whatever the
\* other fields are: without a size total_bytes and downloaded_bytes are 0,
\* without a speed speed is 0, without an MM:SS or H:MM:SS ETA eta is None;
\* and equal lines give equal samples.
C28_FieldsAreIndependent ==
    /\ \A i \in DOMAIN stdout_lines :
          LET line == stdout_lines[i]
              r == parse_progress(line)
          IN  /\ r.yields => \E k \in DOMAIN line : line[k].k = "pct"
              /\ r.yields =>
                    /\ r.sample.total_bytes > 0 <=> HasField(line, "of", "qty")
                    /\ ~HasField(line, "of", "qty") => r.sample.downloaded_bytes = 0
                    /\ r.sample.speed > 0 <=> HasField(line, "at", "rate")
                    /\ r.sample.eta # <<>> <=>
                          \E k \in 1..(Len(line) - 1) :
                             /\ line[k].k = "ETA" /\ line[k + 1].k = "clock"
                             /\ Len(line[k + 1].parts) \in {2, 3}
                             /\ \A q \in DOMAIN line[k + 1].parts :
                                   line[k + 1].parts[q] >= 0
    /\ (\A i, j \in 1..stdout_read : stdout_lines[i] = stdout_lines[j])
          => \A a, b \in DOMAIN callbacks : callbacks[a] = callbacks[b]

\* C28 happens: a line with a percentage and a speed but no size and no ETA
\* has been read and its sample has gone to the callback.
C28_SpeedWithoutSize ==
    /\ stdout_read = 1 /\ Len(callbacks) = 1
    /\ HasField(stdout_lines[1], "at", "rate")
    /\ ~HasField(stdout_lines[1], "of", "qty")
    /\ ~HasField(stdout_lines[1], "ETA", "clock")
    /\ callbacks[1].speed > 0 /\ callbacks[1].total_bytes = 0

\* C29: the example line gives percentage 45.2, total_bytes 157286400, speed
\* 2621440 and eta 30; 1.02KiB is 1044 bytes, 1.00GiB is 1073741824 bytes,
\* a size in an unknown unit is taken as bytes, 12.50KiB/s is 12800 bytes a
\* second; an ETA MM:SS is 60*MM+SS and H:MM:SS is 3600*H+60*MM+SS.
C29_UnitsAndEta ==
    \A i \in DOMAIN callbacks :
       LET line == CHOOSE l \in {stdout_lines[k] : k \in 1..stdout_read} :
                      parse_progress(l).yields /\ parse_progress(l).sample = callbacks[i]
           sample == callbacks[i]
           has(kind, n, unit) ==
              \E k \in DOMAIN line :
                 line[k].k = kind /\ line[k].n = n /\ line[k].unit = unit
           clock(parts) ==
              \E k \in DOMAIN line : line[k].k = "clock" /\ line[k].parts = parts
       IN  /\ line = ExampleLine =>
                /\ sample.percentage = 4520
                /\ sample.total_bytes = 157286400
                /\ sample.speed = 2621440 * 100
                /\ sample.eta = <<30>>
           /\ has("qty", 15000, "MiB") => sample.total_bytes = 150 * 1024 * 1024
           /\ has("qty", 102, "KiB") => sample.total_bytes = 1044
           /\ has("qty", 100, "GiB") => sample.total_bytes = 1024 * 1024 * 1024
           /\ has("qty", 50000, "B") => sample.total_bytes = 500
           /\ has("rate", 250, "MiB") => sample.speed = 250 * 1024 * 1024
           /\ has("rate", 1250, "KiB") => sample.speed = 12800 * 100
           /\ clock(<<0, 30>>) => sample.eta = <<30>>
           /\ clock(<<1, 0, 30>>) => sample.eta = <<3630>>

\* C29 happens: the example line has been read and its sample has gone to
\* the callback.
C29_ExampleLineParsed ==
    /\ stdout_lines = <<ExampleLine>> /\ stdout_read = 1
    /\ callbacks = <<[percentage |-> 4520, total_bytes |-> 157286400,
                      downloaded_bytes |-> 71093452, speed |-> 262144000,
                      eta |-> <<30>>]>>

-----------------------------------------------------------------------------
\* Further properties of the batch orchestrator, stated for Spec.

\* C31: in the statistics download_all has built, successful is the number
\* of jobs that are Complete and failed is the number of jobs that are
\* Failed, with stop_on_error set or unset and with Skipped jobs in the table.
C31_StatsCountStatuses ==
    [][Collect =>
          /\ stats'.successful = Count(items, "Complete")
          /\ stats'.failed = Count(items, "Failed")]_vars

\* C32: when download_all has collected its results and when it returns,
\* with stop_on_error set or unset, every future of the run has returned and
\* no job is Downloading: a job in flight when another job failed has gone
\* on to Complete or Failed.
C32_NoJobLeftDownloading ==
    /\ [](run = "collected" =>
             /\ \A i \in DOMAIN task : task[i] = "done"
             /\ Count(items, "Downloading") = 0)
    /\ [][SaveAndReturn => Count(items', "Downloading") = 0]_vars

\* C32 happens: a run with stop_on_error set and room for two futures has
\* returned with one job Failed and its sibling Complete.
C32_ReturnedAfterFailure ==
    /\ stop_on_error /\ concurrent_limit >= 2
    /\ run = "idle" /\ ret = "Ok(stats)" /\ stats.failed = 1
    /\ \E i, j \in DOMAIN items :
          items[i].status = "Failed" /\ items[j].status = "Complete"

\* C35: in every state of the job table a Complete job has its output_path
\* set, its title set and its progress at 100; a new job has no output_path,
\* and an output_path is written only in the step that makes the job
\* Complete, so a job that was never Complete has none.
C35_CompleteHasItsFields ==
    /\ [](\A i \in DOMAIN items :
             items[i].status = "Complete" =>
                /\ items[i].output_path # "None"
                /\ items[i].title # "None"
                /\ items[i].progress = 100)
    /\ [][\A i \in DOMAIN items' :
             IF i \in DOMAIN items
             THEN items'[i].output_path # items[i].output_path
                     => items'[i].status = "Complete"
             ELSE items'[i].output_path = "None"]_vars

\* C35 happens: while a run is in progress one job is Complete with its
\* fields set and a sibling is Failed without an output_path.
C35_CompleteBesideFailed ==
    /\ run = "running"
    /\ \E i, j \in DOMAIN items :
          /\ items[i].status = "Complete" /\ items[i].output_path = "Some"
          /\ items[i].progress = 100 /\ items[i].title # "None"
          /\ items[j].status = "Failed" /\ items[j].output_path = "None"

\* C38: within one run of download_all the jobs that hold one URL invoke
\* Downloader::download at most once between them and add at most one
\* HistoryEntry between them.
C38_OneDownloadPerUrl ==
    \A i, j \in DOMAIN task :
       /\ calls[i] <= 1 /\ recorded[i] <= 1
       /\ (i # j /\ items[i].url = items[j].url) =>
             /\ calls[i] + calls[j] <= 1
             /\ recorded[i] + recorded[j] <= 1

-----------------------------------------------------------------------------
\* A further property of one load, stated for SpecLoad.

\* C37: when load_from_file or add_urls returns an error, the job table is
\* what it was before the call.
C37_FailedLoadAppendsNothing ==
    [][(CallLoadFromFile \/ CallAddUrls) /\ load_ret' # "Ok"
          => items' = items]_vars

-----------------------------------------------------------------------------
\* A property of the URL input buffer, stated for SpecInput.

\* C39: in UrlInput, after every sequence of character, Backspace, Ctrl+U and
\* Paste events, cursor_pos is a byte position of the buffer: it is at least
\* 0 and at most the buffer's length in bytes; so the position of every
\* insert, cursor_pos, is at most the length and the position of every
\* delete, cursor_pos - 1, is below it.
C39_CursorInsideBuffer ==
    state.kind = "UrlInput" =>
        /\ state.cursor_pos \in 0..Len(state.input)
        /\ state.cursor_pos > 0 => state.cursor_pos - 1 < Len(state.input)

\* C39 happens: after a one-byte and a two-byte character have been typed
\* the cursor stands inside the buffer, below its length.
C39_CursorBelowLength ==
    /\ hpc = "idle"
    /\ state.kind = "UrlInput"
    /\ state.input = <<"U", "C3", "A9">> /\ state.cursor_pos = 2

-----------------------------------------------------------------------------
\* Properties of the job table in batch mode, stated for SpecLock and
\* SpecOrder.

\* C33: in batch mode every percentage the driver parses for a job that is
\* Downloading is written to that job's progress in the job table.
C33_SamplesReachTheJobTable ==
    [][\A j \in Jobs :
          pb'[j] # pb[j] => items'[j].progress = pb'[j]]_vars

\* The mutex a future or a caller is waiting for, "none" when it waits for
\* no mutex.
WaitingFor(t) ==
    IF t \in Jobs
    THEN IF task[t] \in DOMAIN WaitsFor THEN WaitsFor[task[t]] ELSE "none"
    ELSE IF caller[t].pc = "lock_1" THEN nth_lock(caller[t].op, 1)
    ELSE IF caller[t].pc = "lock_2" THEN nth_lock(caller[t].op, 2)
    ELSE "none"

\* C36: whoever takes the job-table mutex holds no history guard at that
\* moment, so the two mutexes are taken one at a time or job table first;
\* no future or caller waits for a mutex it holds itself, and no two of them
\* wait for each other's mutex; and whoever waits for a mutex waits for one
\* whose holder can take a step.
C36_JobTableBeforeHistory ==
    /\ [][\A t \in Jobs \cup Callers :
             (locks'.items = t /\ locks.items # t) => locks.history # t]_vars
    /\ [](\A a, b \in Jobs \cup Callers :
             (WaitingFor(a) # "none" /\ locks[WaitingFor(a)] = b) =>
                /\ b # a
                /\ ~(WaitingFor(b) # "none" /\ locks[WaitingFor(b)] = a)
                /\ IF b \in Jobs THEN ENABLED Section(b)
                   ELSE ENABLED (CallerLock(b) \/ CallerPass(b)) \/ WaitingFor(b) # "none")

\* C36 happens: skip_duplicates holds the job-table mutex and waits for the
\* history mutex, which job 1 holds to add its entry, while job 2 waits for
\* the job-table mutex.
C36_ThreeContenders ==
    /\ caller[3] = [op |-> "skip_duplicates", pc |-> "lock_2"]
    /\ locks = [items |-> 3, history |-> 1]
    /\ task[1] = "record"
    /\ WaitingFor(2) = "items"

-----------------------------------------------------------------------------
\* Properties of the progress of an interactive download, stated for
\* SpecSamples and SpecTui.

\* C34: while the state is the Downloading state of one download and shows a
\* sample of that download, the next sample written into it is not an
\* earlier one: the samples are stored in the order they were parsed.
C34_SamplesStoredInOrder ==
    [][(/\ state.kind = "Downloading" /\ state'.kind = "Downloading"
        /\ state'.dl = state.dl
        /\ state.progress.from = state.dl /\ state'.progress.from = state.dl)
          => state'.progress.percentage >= state.progress.percentage]_vars

\* The Help overlay is open over the Downloading state of download d.
HelpOverDownload(s, d) ==
    /\ s.kind = "Help"
    /\ s.previous_state.kind = "Downloading"
    /\ s.previous_state.dl = d

\* C40: the help key pressed in Downloading captures that state, progress
\* included; while the overlay is open a progress update that takes the lock
\* changes nothing, so the captured state stays as it was captured; the back
\* action puts the captured Downloading state back; and when the download
\* finishes while the overlay is open, the overlay is replaced by Success or
\* Error.
C40_HelpOverDownloading ==
    /\ [][(Press("h") /\ state.kind = "Downloading")
             => state' = [kind |-> "Help", previous_state |-> state]]_vars
    /\ [][\A d \in DOMAIN downloads :
             (HelpOverDownload(state, d) /\ updates' # updates) => state' = state]_vars
    /\ [][\A d \in DOMAIN downloads :
             (HelpOverDownload(state, d) /\ state'.kind = "Help")
                => state' = state]_vars
    /\ [][\A d \in DOMAIN downloads :
             (/\ HelpOverDownload(state, d)
              /\ hpc = "call" /\ hpc' = "idle" /\ hop.call = "back_from_overlay")
                => state' = state.previous_state]_vars
    /\ [][\A d \in DOMAIN downloads :
             (/\ HelpOverDownload(state, d)
              /\ downloads[d].running /\ ~downloads'[d].running)
                => state'.kind \in {"Success", "Error"}]_vars

\* C40 happens: Help is open over a Downloading state that shows no sample
\* yet, the last background step was an update that found Help open, and the
\* back action is about to be applied.
C40_BackAfterDiscardedSample ==
    /\ hpc = "call" /\ hop.call = "back_from_overlay"
    /\ \E d \in DOMAIN downloads :
          /\ HelpOverDownload(state, d)
          /\ downloads[d].running /\ downloads[d].emitted > 0
    /\ state.previous_state.progress = ZeroProgress
    /\ last = [op |-> "update", found |-> "Help"]

====
